---- MODULE Spec2Model ----
(***************************************************************************)
(* Model of tukey's dependency tracker                                     *)
(* (internal/analyzer/dependency_tracker.go): BuildDependencyGraph over a  *)
(* list of ParsedFiles - node creation and symbol indexing (pass 1), usage *)
(* and import resolution with edge application (pass 2), connectivity      *)
(* scoring and the ranked views (pass 3).                                  *)
(*                                                                         *)
(* Strings that the code takes apart or glues together are modelled as     *)
(* sequences of tokens: a namespace "App\Models" is <<"App", "Models">>,   *)
(* the empty string is <<>>, a short name "User" is <<"User">> and a       *)
(* static-call name "User::create" is <<"User", "::", "create">>.  Joining *)
(* with a backslash is concatenation of the token sequences.               *)
(***************************************************************************)
EXTENDS Integers, Sequences, FiniteSets, TLC

VARIABLES
    parsedFiles,     \* the argument of BuildDependencyGraph
    pc,              \* position inside BuildDependencyGraph
    ei,              \* pass 1: index of the next declaration (file order, then element order)
    wi,              \* pass 2: index of the next usage / import work item
    Nodes,           \* graph.Nodes: node id -> DependencyNode
    TotalNodes,      \* graph.TotalNodes
    TotalEdges,      \* graph.TotalEdges
    Orphans,         \* graph.Orphans
    HighlyDepended,  \* graph.HighlyDepended
    ComplexNodes,    \* graph.ComplexNodes
    nodeIndex,       \* dt.nodeIndex: element name -> node id
    namespaceMap,    \* dt.namespaceMap: class short name -> full name
    allUsage,        \* dt.allUsage
    lastItem,        \* history: the usage / import work item handled by the last step
    lastRef,         \* history: the (source, target) handed to addDependencyRef by the last step
    removedShort,    \* history: the short names createNodes has deleted from the index
    applied,         \* history: the references addDependencyRef has applied, in order
    prevGraph,       \* the graph an earlier run of the analysis returned for the same files
    registry,        \* parser registry: language key -> registered parser
    regOut,          \* the outcome of the last call on the parser registry
    files,           \* ProcessFiles: the input files, each with the outcome of its extraction
    progressBar,     \* ProcessFiles: whether a progress sink is supplied
    pfPc,            \* ProcessFiles: position of the calling goroutine
    spawned,         \* ProcessFiles: number of loop iterations done (goroutines started)
    worker,          \* ProcessFiles: position of the goroutine of each file
    semaphore,       \* ProcessFiles: number of elements in the semaphore channel
    mu,              \* ProcessFiles: holder of the aggregation mutex, 0 when free
    wg,              \* ProcessFiles: the WaitGroup counter
    results,         \* ProcessFiles: the slice the workers append to
    pbCurrent,       \* the progress bar's counter
    pbUnguarded,     \* history: number of progress updates made without holding the mutex
    gmu,             \* graph.mu: the function that holds the exclusive lock, "none" when free
    readers,         \* graph.mu: number of goroutines that hold the shared lock
    apc,             \* position inside the running addDependencyRef call, "idle" outside
    call,            \* the arguments of the running addDependencyRef call
    osArgs,          \* os.Args[1:]
    configFile,      \* the config file in the project root, if any
    argv,            \* main: the settings, from parseArgs and then mergeConfigs
    fileCfg,         \* main: what LoadConfig returned, <<>> for nil
    mainPc,          \* position inside main
    sDone,           \* Spinner.done: whether the channel is closed
    sWg,             \* Spinner.wg: the WaitGroup counter
    sOnce,           \* Spinner.once: "fresh", "running" its function, or "done"
    anim,            \* Spinner: position of each animation goroutine
    frame,           \* Spinner: i % len(s.frames) of each animation goroutine
    stopPc,          \* Spinner: position of each caller of Start and Stop
    seen,            \* history: the goroutines started before each caller's Stop call
    stopped,         \* history: the goroutines started before a Stop call that has returned
    sPanic,          \* Spinner: whether a call has panicked
    src,             \* PHP parser: the lines of the file being read
    lineNum,         \* PHP parser: ParseFile's lineNum
    inClass,         \* PHP parser: ParseFile's inClass
    inFunction,      \* PHP parser: ParseFile's inFunction
    braceDepth,      \* PHP parser: ParseFile's braceDepth
    parsed           \* PHP parser: the ParsedFile being filled

\* the state of one dependency tracker and its graph
trackerVars == <<pc, ei, wi, Nodes, TotalNodes, TotalEdges, Orphans,
                 HighlyDepended, ComplexNodes, nodeIndex, namespaceMap,
                 allUsage, lastItem, lastRef, removedShort, applied>>

\* the parser registry
registryVars == <<registry, regOut>>

\* one call of ProcessFilesWithProgress
processVars == <<files, progressBar, pfPc, spawned, worker, semaphore, mu, wg,
                 results, pbCurrent, pbUnguarded>>

\* the graph's lock, its readers and the addDependencyRef call in progress
lockVars == <<gmu, readers, apc, call>>

\* the start of main: command line, config file and the merged settings
configVars == <<osArgs, configFile, argv, fileCfg, mainPc>>

\* one Spinner, its animation goroutines and its callers
spinnerVars == <<sDone, sWg, sOnce, anim, frame, stopPc, seen, stopped, sPanic>>

\* one call of the PHP parser's ParseFile
phpVars == <<src, lineNum, inClass, inFunction, braceDepth, parsed>>


\* the state outside the dependency tracker, except the earlier run's graph
restVars == <<registryVars, processVars, lockVars, configVars, spinnerVars,
              phpVars>>

\* what a step of BuildDependencyGraph leaves alone
auxVars == <<prevGraph, restVars>>

vars == <<parsedFiles, trackerVars, auxVars>>

(***************************************************************************)
(* Bounds of the model.                                                    *)
(***************************************************************************)
\* node sets of at most this size are enumerated in every order
MaxPermNodes == 3
\* longest usage list of a file in the generic input family
MaxUsages == 2
\* last source line a calling method is declared at in the scenario-A family
MaxLine == 3
\* longest parameter list of a declaration in the score family
MaxParams == 2

(***************************************************************************)
(* Program constants.                                                      *)
(***************************************************************************)
maxHighlyDepended == 10
maxComplexNodes == 10

Empty == <<>>
NoNode == <<>>          \* the "" a failed lookup returns
NoRef == [source |-> NoNode, target |-> NoNode, called |-> FALSE]

Min(a, b) == IF a < b THEN a ELSE b
Range(s) == {s[i] : i \in 1..Len(s)}
Restrict(f, S) == [x \in S |-> f[x]]

(***************************************************************************)
(* models.CodeElement, models.UsageElement, models.ParsedFile              *)
(***************************************************************************)
CodeElement(type, name, ns, cls, line, static, abstract, params) ==
    [Type |-> type, Name |-> <<name>>, Namespace |-> ns, ClassName |-> cls,
     IsStatic |-> static, IsAbstract |-> abstract, Line |-> line,
     Parameters |-> params]

UsageElement(type, name, context, line) ==
    [Type |-> type, Name |-> name, Context |-> context, Line |-> line]

ParsedFile(path, ns, uses, elements, usage) ==
    [Path |-> path, Namespace |-> ns, Uses |-> uses, Elements |-> elements,
     Usage |-> usage]

(***************************************************************************)
(* The state of the other components while they are not in use.            *)
(***************************************************************************)
NoParser == [name |-> "", lang |-> ""]

\* no call on the registry yet
NoCall == [op |-> "none", parser |-> NoParser, lang |-> "", ok |-> FALSE,
           langs |-> <<>>, panicked |-> FALSE]

IdleRegistry ==
    /\ registry = <<>>
    /\ regOut = NoCall

IdleProcess ==
    /\ files = <<>>
    /\ progressBar = FALSE
    /\ pfPc = "idle"
    /\ spawned = 0
    /\ worker = <<>>
    /\ semaphore = 0
    /\ mu = 0
    /\ wg = 0
    /\ results = <<>>
    /\ pbCurrent = 0
    /\ pbUnguarded = 0

NoArgs == [source |-> <<>>, target |-> <<>>, depType |-> "", line |-> 0]

IdleLock ==
    /\ gmu = "none"
    /\ readers = 0
    /\ apc = "idle"
    /\ call = NoArgs

\* argv := &Config{ExcludeDirs: []string{}}
NewConfig == [RootPath |-> "", OutputFile |-> "", Verbose |-> FALSE,
              ShowHelp |-> FALSE, ShowVersion |-> FALSE, ExcludeDirs |-> <<>>,
              Language |-> ""]

\* &FileConfig{}
EmptyFileConfig == [Language |-> "", ExcludeDirs |-> <<>>, OutputFile |-> "",
                    Verbose |-> FALSE]

\* no config file in the project root
NoConfigFile == [exists |-> FALSE, readable |-> FALSE, content |-> EmptyFileConfig]

IdleConfig ==
    /\ osArgs = <<>>
    /\ configFile = NoConfigFile
    /\ argv = NewConfig
    /\ fileCfg = <<>>
    /\ mainPc = "idle"

\* most animation goroutines and most callers of one Spinner
MaxStarts == 2
MaxCallers == 2

\* len(s.frames)
NumFrames == 10

\* NewSpinner: the channel is open, no goroutine runs, nothing was called
IdleSpinner ==
    /\ sDone = FALSE
    /\ sWg = 0
    /\ sOnce = "fresh"
    /\ anim = [g \in 1..MaxStarts |-> "unstarted"]
    /\ frame = [g \in 1..MaxStarts |-> 0]
    /\ stopPc = [c \in 1..MaxCallers |-> "idle"]
    /\ seen = [c \in 1..MaxCallers |-> {}]
    /\ stopped = {}
    /\ sPanic = FALSE

\* &models.ParsedFile{Path: filePath, Elements: [], Usage: [], Uses: []}
NewParsedFile == ParsedFile("a.php", Empty, <<>>, <<>>, <<>>)

\* no file is being parsed
IdlePhp ==
    /\ src = <<>>
    /\ lineNum = 0
    /\ inClass = Empty
    /\ inFunction = Empty
    /\ braceDepth = 0
    /\ parsed = NewParsedFile

(***************************************************************************)
(* Helper functions of the tracker.                                        *)
(***************************************************************************)
\* getFullName: namespace + "\" + name, or name alone in the global namespace
getFullName(namespace, name) ==
    IF namespace = Empty THEN name ELSE namespace \o name

\* fmt.Sprintf("%s:%s:%d", element.Type, fullName, element.Line)
NodeID(element) ==
    <<element.Type, getFullName(element.Namespace, element.Name), element.Line>>

\* calculateComplexityScore without the term for the parameters
calculateComplexityScore_NoParams(element) ==
    CASE element.Type = "class" ->
            5 + (IF element.IsAbstract THEN 2 ELSE 0)
      [] element.Type \in {"method", "function"} ->
            3 + (IF element.IsStatic THEN 1 ELSE 0)
              + (IF element.IsAbstract THEN 2 ELSE 0)
      [] element.Type = "property" ->
            2 + (IF element.IsStatic THEN 1 ELSE 0)
      [] OTHER -> 1

\* calculateComplexityScore
calculateComplexityScore(element) ==
    CASE element.Type = "class" ->
            5 + (IF element.IsAbstract THEN 2 ELSE 0)
      [] element.Type \in {"method", "function"} ->
            3 + Len(element.Parameters)
              + (IF element.IsStatic THEN 1 ELSE 0)
              + (IF element.IsAbstract THEN 2 ELSE 0)
      [] element.Type = "property" ->
            2 + (IF element.IsStatic THEN 1 ELSE 0)
      [] OTHER -> 1

(***************************************************************************)
(* The loops of BuildDependencyGraph, flattened in the order the code      *)
(* visits them.                                                            *)
(***************************************************************************)
\* createNodes: for each file, for each element of the file
RECURSIVE Declarations(_)
Declarations(pfiles) ==
    IF pfiles = <<>> THEN <<>>
    ELSE [i \in 1..Len(Head(pfiles).Elements) |->
              [file |-> Head(pfiles), element |-> Head(pfiles).Elements[i]]]
         \o Declarations(Tail(pfiles))

NoUsage == UsageElement("", Empty, Empty, 0)
NoElement == CodeElement("", "", Empty, Empty, 0, FALSE, FALSE, <<>>)
NoFile == ParsedFile("", Empty, <<>>, <<>>, <<>>)
NoItem == [kind |-> "none", file |-> NoFile, usage |-> NoUsage,
           element |-> NoElement, importPath |-> Empty]

\* processFileUsage: one createDependency call per usage of the file
UsageItems(file) ==
    [i \in 1..Len(file.Usage) |->
        [kind |-> "usage", file |-> file, usage |-> file.Usage[i],
         element |-> NoElement, importPath |-> Empty]]

\* processImports: for each use statement, for each class element of the file,
\* one createImportDependency call
ImportItems(file) ==
    LET E == Len(file.Elements)
        pairs == [k \in 1..(Len(file.Uses) * E) |->
                     [kind |-> "import", file |-> file, usage |-> NoUsage,
                      element |-> file.Elements[((k - 1) % E) + 1],
                      importPath |-> file.Uses[((k - 1) \div E) + 1]]]
        IsClass(item) == item.element.Type = "class"
    IN  SelectSeq(pairs, IsClass)

\* buildRelationships: for each file, processFileUsage then processImports
RECURSIVE WorkItems(_)
WorkItems(pfiles) ==
    IF pfiles = <<>> THEN <<>>
    ELSE UsageItems(Head(pfiles)) \o ImportItems(Head(pfiles))
         \o WorkItems(Tail(pfiles))

(***************************************************************************)
(* State after NewDependencyTracker(), for an input list of parsed files.  *)
(***************************************************************************)
InitTracker ==
    /\ pc = "createNodes"
    /\ ei = 1
    /\ wi = 1
    /\ Nodes = <<>>
    /\ TotalNodes = 0
    /\ TotalEdges = 0
    /\ Orphans = <<>>
    /\ HighlyDepended = <<>>
    /\ ComplexNodes = <<>>
    /\ nodeIndex = <<>>
    /\ namespaceMap = <<>>
    /\ allUsage = <<>>
    /\ lastItem = NoItem
    /\ lastRef = NoRef
    /\ removedShort = {}
    /\ applied = <<>>

(***************************************************************************)
(* Pass 1: createNodes                                                     *)
(***************************************************************************)
\* the DependencyNode built for an element of a file
NewNode(file, element) ==
    [ID |-> NodeID(element), Name |-> element.Name, Type |-> element.Type,
     File |-> file.Path, Namespace |-> element.Namespace,
     ClassName |-> element.ClassName, Line |-> element.Line,
     Dependencies |-> <<>>, Dependents |-> <<>>,
     Score |-> calculateComplexityScore(element)]

\* IndexElement that, on a short-name conflict, overwrites the short-name
\* entry instead of removing it
IndexElement_Overwrite(index, nsMap, element) ==
    LET fullName == getFullName(element.Namespace, element.Name)
        nodeID == NodeID(element)
        byFull == (fullName :> nodeID) @@ index
    IN  <<(element.Name :> nodeID) @@ byFull,
          IF element.Type = "class" /\ element.Namespace # Empty
          THEN (element.Name :> fullName) @@ nsMap
          ELSE nsMap>>

\* the search indexes after one element has been ingested: <<nodeIndex, namespaceMap>>
IndexElement(index, nsMap, element) ==
    LET fullName == getFullName(element.Namespace, element.Name)
        nodeID == NodeID(element)
        byFull == (fullName :> nodeID) @@ index
    IN  IF element.Namespace = Empty
        THEN <<(element.Name :> nodeID) @@ byFull, nsMap>>
        ELSE IF element.Name \in DOMAIN byFull
             THEN <<Restrict(byFull, DOMAIN byFull \ {element.Name}),
                    IF element.Type = "class"
                    THEN Restrict(nsMap, DOMAIN nsMap \ {element.Name})
                    ELSE nsMap>>
             ELSE <<(element.Name :> nodeID) @@ byFull,
                    IF element.Type = "class"
                    THEN (element.Name :> fullName) @@ nsMap
                    ELSE nsMap>>

\* one iteration of the element loop of createNodes
CreateNode ==
    /\ pc = "createNodes"
    /\ ei <= Len(Declarations(parsedFiles))
    /\ LET d == Declarations(parsedFiles)[ei]
           idx == IndexElement(nodeIndex, namespaceMap, d.element)
       IN  /\ Nodes' = (NodeID(d.element) :> NewNode(d.file, d.element)) @@ Nodes
           /\ nodeIndex' = idx[1]
           /\ namespaceMap' = idx[2]
           /\ removedShort' =
                 IF /\ d.element.Namespace # Empty
                    /\ d.element.Name \notin DOMAIN idx[1]
                 THEN removedShort \cup {d.element.Name}
                 ELSE removedShort
    /\ ei' = ei + 1
    /\ UNCHANGED <<parsedFiles, pc, wi, TotalNodes, TotalEdges, Orphans,
                   HighlyDepended, ComplexNodes, allUsage, lastItem, lastRef,
                   applied>>
    /\ UNCHANGED auxVars

\* createNodes that returns as soon as the elements of the first file are
\* ingested
FinishCreateNodes_AfterFirstFile ==
    /\ pc = "createNodes"
    /\ parsedFiles # <<>> => ei > Len(parsedFiles[1].Elements)
    /\ TotalNodes' = Cardinality(DOMAIN Nodes)
    /\ pc' = IF WorkItems(parsedFiles) = <<>> THEN "calculateMetrics"
             ELSE "buildRelationships"
    /\ UNCHANGED <<parsedFiles, ei, wi, Nodes, TotalEdges, Orphans,
                   HighlyDepended, ComplexNodes, nodeIndex, namespaceMap,
                   allUsage, lastItem, lastRef,
                   removedShort, applied>>
    /\ UNCHANGED auxVars

\* the end of createNodes with TotalNodes set to the number of parsed files
FinishCreateNodes_CountsFiles ==
    /\ pc = "createNodes"
    /\ ei > Len(Declarations(parsedFiles))
    /\ TotalNodes' = Len(parsedFiles)
    /\ pc' = IF WorkItems(parsedFiles) = <<>> THEN "calculateMetrics"
             ELSE "buildRelationships"
    /\ UNCHANGED <<parsedFiles, ei, wi, Nodes, TotalEdges, Orphans,
                   HighlyDepended, ComplexNodes, nodeIndex, namespaceMap,
                   allUsage, lastItem, lastRef,
                   removedShort, applied>>
    /\ UNCHANGED auxVars

\* the end of createNodes: dt.graph.TotalNodes = len(dt.graph.Nodes)
FinishCreateNodes ==
    /\ pc = "createNodes"
    /\ ei > Len(Declarations(parsedFiles))
    /\ TotalNodes' = Cardinality(DOMAIN Nodes)
    /\ pc' = IF WorkItems(parsedFiles) = <<>> THEN "calculateMetrics"
             ELSE "buildRelationships"
    /\ UNCHANGED <<parsedFiles, ei, wi, Nodes, TotalEdges, Orphans,
                   HighlyDepended, ComplexNodes, nodeIndex, namespaceMap,
                   allUsage, lastItem, lastRef,
                   removedShort, applied>>
    /\ UNCHANGED auxVars

(***************************************************************************)
(* Pass 2: buildRelationships                                              *)
(***************************************************************************)
\* strings.Contains(name, "::")
IsStaticName(name) == \E i \in 1..Len(name) : name[i] = "::"

\* strings.Split(name, "::")[0]
ClassPart(name) ==
    LET first == CHOOSE i \in 1..Len(name) :
                    /\ name[i] = "::"
                    /\ \A j \in 1..(i - 1) : name[j] # "::"
    IN  SubSeq(name, 1, first - 1)

\* findTargetNode that tries a plain name with the current namespace before
\* the name as it stands
findTargetNode_NamespaceFirst(name, namespace) ==
    IF IsStaticName(name)
    THEN LET className == ClassPart(name)
             fullName == getFullName(namespace, className)
         IN  IF fullName \in DOMAIN nodeIndex
             THEN nodeIndex[fullName]
             ELSE IF /\ className \in DOMAIN namespaceMap
                     /\ namespaceMap[className] \in DOMAIN nodeIndex
                  THEN nodeIndex[namespaceMap[className]]
                  ELSE IF /\ className \in DOMAIN nodeIndex
                          /\ nodeIndex[className] \in DOMAIN Nodes
                          /\ \/ Nodes[nodeIndex[className]].Namespace # Empty
                             \/ Nodes[nodeIndex[className]].File # ""
                       THEN nodeIndex[className]
                       ELSE NoNode
    ELSE LET fullName == getFullName(namespace, name)
         IN  IF fullName \in DOMAIN nodeIndex
             THEN nodeIndex[fullName]
             ELSE IF name \in DOMAIN nodeIndex
                  THEN nodeIndex[name]
                  ELSE IF /\ name \in DOMAIN namespaceMap
                          /\ namespaceMap[name] \in DOMAIN nodeIndex
                       THEN nodeIndex[namespaceMap[name]]
                       ELSE NoNode

\* findTargetNode, over the indexes <<index, nsMap>> and the node map
findTargetNode(name, namespace) ==
    IF IsStaticName(name)
    THEN LET className == ClassPart(name)
             fullName == getFullName(namespace, className)
         IN  IF fullName \in DOMAIN nodeIndex
             THEN nodeIndex[fullName]
             ELSE IF /\ className \in DOMAIN namespaceMap
                     /\ namespaceMap[className] \in DOMAIN nodeIndex
                  THEN nodeIndex[namespaceMap[className]]
                  ELSE IF /\ className \in DOMAIN nodeIndex
                          /\ nodeIndex[className] \in DOMAIN Nodes
                          /\ \/ Nodes[nodeIndex[className]].Namespace # Empty
                             \/ Nodes[nodeIndex[className]].File # ""
                       THEN nodeIndex[className]
                       ELSE NoNode
    ELSE LET fullName == getFullName(namespace, name)
         IN  IF name \in DOMAIN nodeIndex
             THEN nodeIndex[name]
             ELSE IF fullName \in DOMAIN nodeIndex
                  THEN nodeIndex[fullName]
                  ELSE IF /\ name \in DOMAIN namespaceMap
                          /\ namespaceMap[name] \in DOMAIN nodeIndex
                       THEN nodeIndex[namespaceMap[name]]
                       ELSE NoNode

\* the source loop without the test that the node belongs to the file
SourceCandidates_AnyFile(usage, file) ==
    {id \in DOMAIN Nodes :
        \/ usage.Context = Nodes[id].Name
        \/ (usage.Context = Nodes[id].ClassName /\ Nodes[id].Type = "class")}

\* createDependency, the source loop: the nodes of the file whose name is the
\* usage's context, or that are a class whose ClassName is the context.  The
\* loop ranges over a Go map and stops at the first match, so any of them can
\* become the source.
SourceCandidates(usage, file) ==
    {id \in DOMAIN Nodes :
        /\ Nodes[id].File = file.Path
        /\ \/ usage.Context = Nodes[id].Name
           \/ (usage.Context = Nodes[id].ClassName /\ Nodes[id].Type = "class")}

\* a DependencyRef that carries the other node's name where its id belongs
NewRef_NameAsID(other, depType, line) ==
    [TargetID |-> Nodes[other].Name, TargetName |-> Nodes[other].Name,
     Type |-> depType, Count |-> 1, Lines |-> <<line>>]

\* the DependencyRef of a newly created edge end
NewRef(other, depType, line) ==
    [TargetID |-> Nodes[other].ID, TargetName |-> Nodes[other].Name,
     Type |-> depType, Count |-> 1, Lines |-> <<line>>]

\* addDependencyRef that counts a repeated reference without keeping its line
UpdateRefs_CountOnly(refs, other, depType, line) ==
    IF other \in DOMAIN refs
    THEN [refs EXCEPT ![other].Count = @ + 1]
    ELSE (other :> NewRef(other, depType, line)) @@ refs

\* addDependencyRef, the update of one of the two maps
UpdateRefs(refs, other, depType, line) ==
    IF other \in DOMAIN refs
    THEN [refs EXCEPT ![other].Count = @ + 1,
                      ![other].Lines = Append(@, line)]
    ELSE (other :> NewRef(other, depType, line)) @@ refs

\* addDependencyRef that updates an existing dependency without touching the
\* mirrored dependent
addDependencyRef_StaleMirror(source, target, depType, line) ==
    IF source = target
    THEN UNCHANGED <<Nodes, TotalEdges, applied>>
    ELSE /\ Nodes' = [Nodes EXCEPT
                ![source].Dependencies = UpdateRefs(@, target, depType, line),
                ![target].Dependents =
                    IF source \in DOMAIN @ THEN @
                    ELSE UpdateRefs(@, source, depType, line)]
         /\ TotalEdges' = TotalEdges + 1
         /\ applied' = Append(applied, [source |-> source, target |-> target,
                                     depType |-> depType, line |-> line])

\* addDependencyRef without the check for self-dependencies
addDependencyRef_NoSelfCheck(source, target, depType, line) ==
    /\ Nodes' = [Nodes EXCEPT
           ![source].Dependencies = UpdateRefs(@, target, depType, line),
           ![target].Dependents = UpdateRefs(@, source, depType, line)]
    /\ TotalEdges' = TotalEdges + 1
    /\ applied' = Append(applied, [source |-> source, target |-> target,
                                depType |-> depType, line |-> line])

\* addDependencyRef that counts an edge only when it creates one
addDependencyRef_CountsCreations(source, target, depType, line) ==
    IF source = target
    THEN UNCHANGED <<Nodes, TotalEdges, applied>>
    ELSE /\ Nodes' = [Nodes EXCEPT
                ![source].Dependencies = UpdateRefs(@, target, depType, line),
                ![target].Dependents = UpdateRefs(@, source, depType, line)]
         /\ TotalEdges' = IF target \in DOMAIN Nodes[source].Dependencies
                          THEN TotalEdges ELSE TotalEdges + 1
         /\ applied' = Append(applied, [source |-> source, target |-> target,
                                     depType |-> depType, line |-> line])

\* addDependencyRef (source and target are the ids of the two nodes)
addDependencyRef(source, target, depType, line) ==
    IF source = target
    THEN UNCHANGED <<Nodes, TotalEdges, applied>>
    ELSE /\ Nodes' = [Nodes EXCEPT
                ![source].Dependencies = UpdateRefs(@, target, depType, line),
                ![target].Dependents = UpdateRefs(@, source, depType, line)]
         /\ TotalEdges' = TotalEdges + 1
         /\ applied' = Append(applied, [source |-> source, target |-> target,
                                     depType |-> depType, line |-> line])

\* the next position after a work item
AfterItem(i) ==
    IF i >= Len(WorkItems(parsedFiles)) THEN "calculateMetrics"
    ELSE "buildRelationships"

\* processFileUsage, one iteration: record the usage, then createDependency
ProcessUsage ==
    /\ pc = "buildRelationships"
    /\ wi <= Len(WorkItems(parsedFiles))
    /\ LET item == WorkItems(parsedFiles)[wi]
           targetNodeID == findTargetNode(item.usage.Name, item.file.Namespace)
       IN  /\ item.kind = "usage"
           /\ lastItem' = item
           /\ allUsage' = Append(allUsage, item.usage)
           /\ IF \/ SourceCandidates(item.usage, item.file) = {}
                 \/ targetNodeID = NoNode
                 \/ targetNodeID \notin DOMAIN Nodes
              THEN /\ lastRef' = NoRef
                   /\ UNCHANGED <<Nodes, TotalEdges, applied>>
              ELSE \E sourceNode \in SourceCandidates(item.usage, item.file) :
                      /\ lastRef' = [source |-> sourceNode,
                                     target |-> targetNodeID, called |-> TRUE]
                      /\ addDependencyRef(sourceNode, targetNodeID,
                                          item.usage.Type, item.usage.Line)
    /\ wi' = wi + 1
    /\ pc' = AfterItem(wi)
    /\ UNCHANGED <<parsedFiles, ei, TotalNodes, Orphans, HighlyDepended,
                   ComplexNodes, nodeIndex, namespaceMap, removedShort>>
    /\ UNCHANGED auxVars

\* createImportDependency that falls back to the last segment of the import
\* path when the full path is not indexed
ProcessImport_ShortNameFallback ==
    /\ pc = "buildRelationships"
    /\ wi <= Len(WorkItems(parsedFiles))
    /\ LET item == WorkItems(parsedFiles)[wi]
           fullName == getFullName(item.element.Namespace, item.element.Name)
           sourceNodeID == IF fullName \in DOMAIN nodeIndex
                           THEN nodeIndex[fullName] ELSE NoNode
           shortName == SubSeq(item.importPath, Len(item.importPath),
                               Len(item.importPath))
           targetNodeID == IF item.importPath \in DOMAIN nodeIndex
                           THEN nodeIndex[item.importPath]
                           ELSE IF shortName \in DOMAIN nodeIndex
                                THEN nodeIndex[shortName] ELSE NoNode
       IN  /\ item.kind = "import"
           /\ lastItem' = item
           /\ IF \/ sourceNodeID = NoNode
                 \/ sourceNodeID \notin DOMAIN Nodes
                 \/ targetNodeID = NoNode
                 \/ targetNodeID \notin DOMAIN Nodes
              THEN /\ lastRef' = NoRef
                   /\ UNCHANGED <<Nodes, TotalEdges, applied>>
              ELSE /\ lastRef' = [source |-> sourceNodeID,
                                  target |-> targetNodeID, called |-> TRUE]
                   /\ addDependencyRef(sourceNodeID, targetNodeID, "imports",
                                       item.element.Line)
    /\ wi' = wi + 1
    /\ pc' = AfterItem(wi)
    /\ UNCHANGED <<parsedFiles, ei, TotalNodes, Orphans, HighlyDepended,
                   ComplexNodes, nodeIndex, namespaceMap, allUsage,
                   removedShort>>
    /\ UNCHANGED auxVars

\* processImports, one createImportDependency call
ProcessImport ==
    /\ pc = "buildRelationships"
    /\ wi <= Len(WorkItems(parsedFiles))
    /\ LET item == WorkItems(parsedFiles)[wi]
           fullName == getFullName(item.element.Namespace, item.element.Name)
           sourceNodeID == IF fullName \in DOMAIN nodeIndex
                           THEN nodeIndex[fullName] ELSE NoNode
           targetNodeID == IF item.importPath \in DOMAIN nodeIndex
                           THEN nodeIndex[item.importPath] ELSE NoNode
       IN  /\ item.kind = "import"
           /\ lastItem' = item
           /\ IF \/ sourceNodeID = NoNode
                 \/ sourceNodeID \notin DOMAIN Nodes
                 \/ targetNodeID = NoNode
                 \/ targetNodeID \notin DOMAIN Nodes
              THEN /\ lastRef' = NoRef
                   /\ UNCHANGED <<Nodes, TotalEdges, applied>>
              ELSE /\ lastRef' = [source |-> sourceNodeID,
                                  target |-> targetNodeID, called |-> TRUE]
                   /\ addDependencyRef(sourceNodeID, targetNodeID, "imports",
                                       item.element.Line)
    /\ wi' = wi + 1
    /\ pc' = AfterItem(wi)
    /\ UNCHANGED <<parsedFiles, ei, TotalNodes, Orphans, HighlyDepended,
                   ComplexNodes, nodeIndex, namespaceMap, allUsage,
                   removedShort>>
    /\ UNCHANGED auxVars

(***************************************************************************)
(* Pass 3: calculateMetrics and identifyPatterns                           *)
(***************************************************************************)
\* calculateMetrics adding the occurrence counts of the edges instead of the
\* sizes of the two maps
calculateMetrics_Occurrences ==
    /\ pc = "calculateMetrics"
    /\ Nodes' = [id \in DOMAIN Nodes |->
                    LET out == Nodes[id].Dependencies
                        inc == Nodes[id].Dependents
                        Occ(refs) ==
                            IF DOMAIN refs = {} THEN 0
                            ELSE LET f[S \in SUBSET DOMAIN refs] ==
                                         IF S = {} THEN 0
                                         ELSE LET x == CHOOSE y \in S : TRUE
                                              IN  refs[x].Count + f[S \ {x}]
                                 IN  f[DOMAIN refs]
                    IN  [Nodes[id] EXCEPT !.Score = @ + Occ(out) + (Occ(inc) * 2)]]
    /\ pc' = "identifyPatterns"
    /\ UNCHANGED <<parsedFiles, ei, wi, TotalNodes, TotalEdges, Orphans,
                   HighlyDepended, ComplexNodes, nodeIndex, namespaceMap,
                   allUsage, lastItem, lastRef,
                   removedShort, applied>>
    /\ UNCHANGED auxVars

\* calculateMetrics
calculateMetrics ==
    /\ pc = "calculateMetrics"
    /\ Nodes' = [id \in DOMAIN Nodes |->
                    [Nodes[id] EXCEPT !.Score =
                        @ + Cardinality(DOMAIN Nodes[id].Dependencies)
                          + (Cardinality(DOMAIN Nodes[id].Dependents) * 2)]]
    /\ pc' = "identifyPatterns"
    /\ UNCHANGED <<parsedFiles, ei, wi, TotalNodes, TotalEdges, Orphans,
                   HighlyDepended, ComplexNodes, nodeIndex, namespaceMap,
                   allUsage, lastItem, lastRef,
                   removedShort, applied>>
    /\ UNCHANGED auxVars

\* some enumeration of a finite set
RECURSIVE SetToSeq(_)
SetToSeq(S) ==
    IF S = {} THEN <<>>
    ELSE LET x == CHOOSE y \in S : TRUE
         IN  <<x>> \o SetToSeq(S \ {x})

Reverse(s) == [i \in 1..Len(s) |-> s[Len(s) + 1 - i]]
Rotate(s, k) == [i \in 1..Len(s) |-> s[((i + k - 1) % Len(s)) + 1]]

\* The orders in which the elements of s can be met: every permutation of a
\* short s; for a longer s the rotations of s and of its reverse.
Reorderings(s) ==
    IF Len(s) <= MaxPermNodes
    THEN {p \in [1..Len(s) -> Range(s)] : \A x \in Range(s) : \E i \in 1..Len(s) : p[i] = x}
    ELSE {Rotate(s, k) : k \in 0..(Len(s) - 1)}
         \cup {Rotate(Reverse(s), k) : k \in 0..(Len(s) - 1)}

\* s ordered by non-increasing key, elements of equal key in the order of s
StableSortDesc(s, key) ==
    LET pos(i) == 1 + Cardinality({j \in 1..Len(s) : key[s[j]] > key[s[i]]})
                    + Cardinality({j \in 1..(i - 1) : key[s[j]] = key[s[i]]})
    IN  [p \in 1..Len(s) |-> s[CHOOSE i \in 1..Len(s) : pos(i) = p]]

\* sort.Slice(s, func(i, j) bool { return key(s[i]) > key(s[j]) }): the sort is
\* not stable, elements of equal key can come out in any order
SortSlice(s, key) == {StableSortDesc(r, key) : r \in Reorderings(s)}

\* for _, node := range dt.graph.Nodes { allNodes = append(allNodes, node) }:
\* the nodes in the order the map delivers them.  That order is arbitrary; the
\* sort that follows is modelled as meeting its input in every order of
\* Reorderings, which covers it.
RangeNodes == SetToSeq(DOMAIN Nodes)

\* the score comparison taken over from the first sort
ScoreKey_Dependents ==
    [id \in DOMAIN Nodes |-> Cardinality(DOMAIN Nodes[id].Dependents)]

\* the orphan test with || for &&
IsOrphan_Either(id) ==
    \/ Cardinality(DOMAIN Nodes[id].Dependencies) = 0
    \/ Cardinality(DOMAIN Nodes[id].Dependents) = 0

\* the slice kept whole
TopOf_NoCap(s, max) == s

\* the comparison keys of the two sorts
DependentsKey == [id \in DOMAIN Nodes |-> Cardinality(DOMAIN Nodes[id].Dependents)]
ScoreKey == [id \in DOMAIN Nodes |-> Nodes[id].Score]

\* len(node.Dependencies) == 0 && len(node.Dependents) == 0
IsOrphan(id) ==
    /\ Cardinality(DOMAIN Nodes[id].Dependencies) = 0
    /\ Cardinality(DOMAIN Nodes[id].Dependents) = 0

\* allNodes[:max], max lowered to len(allNodes) when the slice is shorter
TopOf(s, max) == SubSeq(s, 1, Min(max, Len(s)))

\* identifyPatterns.  HighlyDepended is the slice allNodes[:maxHighlyDepended]:
\* it shares the array of allNodes, which the second sort.Slice reorders in
\* place, so what it holds on return are the first elements of that array as
\* the second sort left them.
identifyPatterns ==
    /\ pc = "identifyPatterns"
    /\ \E byDependents \in SortSlice(RangeNodes, DependentsKey) :
           \E byScore \in SortSlice(byDependents, ScoreKey) :
              /\ HighlyDepended' =
                    SubSeq(byScore, 1, Len(TopOf(byDependents, maxHighlyDepended)))
              /\ Orphans' = Orphans \o SelectSeq(byDependents, IsOrphan)
              /\ ComplexNodes' = TopOf(byScore, maxComplexNodes)
    /\ pc' = "done"
    /\ UNCHANGED <<parsedFiles, ei, wi, Nodes, TotalNodes, TotalEdges,
                   nodeIndex, namespaceMap, allUsage, lastItem, lastRef,
                   removedShort, applied>>
    /\ UNCHANGED auxVars

(***************************************************************************)
(* A second run of the analysis on the same files.                         *)
(***************************************************************************)
NoGraph == <<>>

\* the fields of the DependencyGraph that BuildDependencyGraph returns
Graph ==
    [Nodes |-> Nodes, TotalNodes |-> TotalNodes, TotalEdges |-> TotalEdges,
     Orphans |-> Orphans, HighlyDepended |-> HighlyDepended,
     ComplexNodes |-> ComplexNodes]

\* the orders in which the extraction workers can have appended the same
\* parsed files
AppendOrders(pfiles) ==
    {p \in [1..Len(pfiles) -> Range(pfiles)] :
        \A f \in Range(pfiles) : \E i \in 1..Len(pfiles) : p[i] = f}

\* The analysis is run again on the unchanged files: the workers append the
\* parsed files in some order, and a new tracker builds the graph from them.
Rerun ==
    /\ pc = "done"
    /\ prevGraph = NoGraph
    /\ prevGraph' = Graph
    /\ parsedFiles' \in AppendOrders(parsedFiles)
    /\ pc' = "createNodes"
    /\ ei' = 1
    /\ wi' = 1
    /\ Nodes' = <<>>
    /\ TotalNodes' = 0
    /\ TotalEdges' = 0
    /\ Orphans' = <<>>
    /\ HighlyDepended' = <<>>
    /\ ComplexNodes' = <<>>
    /\ nodeIndex' = <<>>
    /\ namespaceMap' = <<>>
    /\ allUsage' = <<>>
    /\ lastItem' = NoItem
    /\ lastRef' = NoRef
    /\ removedShort' = {}
    /\ applied' = <<>>
    /\ UNCHANGED restVars

(***************************************************************************)
(* Input families: the lists of parsed files BuildDependencyGraph is run   *)
(* on.  Every file is one the extractor can produce: a class element has   *)
(* no ClassName, a method carries the name of its class.                   *)
(***************************************************************************)
NsApp == <<"App">>
NsLib == <<"Lib">>
NsWeb == <<"Web">>
Namespaces == {Empty, NsApp, NsLib}

Class(name, ns, line) ==
    CodeElement("class", name, ns, Empty, line, FALSE, FALSE, <<>>)
Method(name, ns, cls, line, params) ==
    CodeElement("method", name, ns, <<cls>>, line, FALSE, FALSE, params)
Function(name, ns, line, params) ==
    CodeElement("function", name, ns, Empty, line, FALSE, FALSE, params)

\* Scenario A: one file declares the global function format_phone, two other
\* files each call it once from inside a method.
CallerFile(path, ns, cls, m, line) ==
    ParsedFile(path, ns, <<>>,
               <<Class(cls, ns, 1), Method(m, ns, cls, line, <<>>)>>,
               <<UsageElement("function_call", <<"format_phone">>, <<m>>, line + 1)>>)

ScenarioAInputs ==
    {<<ParsedFile("helpers.php", Empty, <<>>,
                  <<Function("format_phone", Empty, 1, <<"phone">>)>>, <<>>),
       CallerFile("a.php", n2, "A", m2, l2),
       CallerFile("b.php", n3, "B", m3, l3)>> :
        n2 \in {Empty, NsApp}, n3 \in {Empty, NsApp},
        m2 \in {"run", "send"}, m3 \in {"run", "send"},
        l2 \in 2..MaxLine, l3 \in 2..MaxLine}

\* Two classes named User, and a controller that refers to User in several ways.
UserUsages ==
    {UsageElement("instantiation", <<"User">>, <<"run">>, 3),
     UsageElement("static_call", <<"User", "::", "create">>, <<"run">>, 3),
     UsageElement("instantiation", <<"App", "User">>, <<"run">>, 3),
     UsageElement("static_call", <<"Lib", "User", "::", "create">>, <<"run">>, 3),
     UsageElement("instantiation", <<"User">>, Empty, 4)}

AmbiguityInputs ==
    {<<ParsedFile("u1.php", n1, <<>>, <<Class("User", n1, 1)>>, <<>>),
       ParsedFile("u2.php", n2, <<>>, <<Class("User", n2, 1)>>, <<>>),
       ParsedFile("ctl.php", nU, uses,
                  <<Class("Ctl", nU, 1), Method("run", nU, "Ctl", 2, <<"req">>)>>,
                  <<u>>)>> :
        n1 \in Namespaces, n2 \in Namespaces, nU \in Namespaces \cup {NsWeb},
        uses \in {<<>>, <<<<"App", "User">>>>, <<<<"Ext", "Thing">>>>},
        u \in UserUsages}

\* A class with a method that calls itself, a helper and another class, with
\* usage lists of every length up to MaxUsages.
GenericUsages ==
    {UsageElement("static_call", <<"B", "::", "make">>, <<"A">>, 2),
     UsageElement("method_call", <<"run">>, <<"run">>, 4),
     UsageElement("function_call", <<"helper">>, <<"run">>, 5),
     UsageElement("instantiation", <<"B">>, <<"run">>, 6),
     UsageElement("function_call", <<"helper">>, Empty, 8)}

SeqsUpTo(S, n) == UNION {[1..k -> S] : k \in 0..n}

GenericInputs ==
    {<<ParsedFile("a.php", nA, uses,
                  <<Class("A", nA, 1), Method("run", nA, "A", 3, <<>>)>>, usage),
       ParsedFile("b.php", nB, <<>>,
                  <<Class("B", nB, 1), Function("helper", nB, 9, <<"x", "y">>)>>,
                  <<>>)>> :
        nA \in {Empty, NsApp}, nB \in {Empty, NsLib},
        uses \in {<<>>, <<<<"Lib", "B">>>>, <<<<"App", "A">>>>},
        usage \in SeqsUpTo(GenericUsages, MaxUsages)}

\* A file with more declarations than the ranked views retain.
MethodNames == <<"m1", "m2", "m3", "m4", "m5", "m6", "m7", "m8", "m9", "m10">>

BigUsages ==
    {<<>>,
     <<UsageElement("method_call", <<"m2">>, <<"m1">>, 3)>>,
     <<UsageElement("method_call", <<"m1">>, <<"Solo">>, 2),
       UsageElement("method_call", <<"m2">>, <<"m1">>, 3),
       UsageElement("method_call", <<"m2">>, <<"m3">>, 5)>>,
     <<UsageElement("method_call", <<"m1">>, <<"Lone">>, Len(MethodNames) + 3),
       UsageElement("method_call", <<"m2">>, <<"Lone">>, Len(MethodNames) + 3)>>,
     <<UsageElement("method_call", <<"m1">>, <<"Solo">>, 2),
       UsageElement("method_call", <<"m2">>, <<"m1">>, 3),
       UsageElement("method_call", <<"m2">>, <<"m1">>, 4)>>}

BigInputs ==
    {<<ParsedFile("big.php", NsApp, <<>>,
                  <<Class("Solo", NsApp, 1)>>
                  \o [i \in 1..Len(MethodNames) |->
                        Method(MethodNames[i], NsApp, "Solo", i + 2,
                               <<"a", "b", "c">>)]
                  \o <<CodeElement("class", "Lone", NsApp, Empty,
                                   Len(MethodNames) + 3, FALSE, abstract, <<>>)>>,
                  usage)>> :
        usage \in BigUsages, abstract \in BOOLEAN}

\* One declaration of every kind with every combination of the attributes, and
\* scenario B: an abstract class with a static method and a constant.
Kinds == {"class", "method", "function", "property", "constant", "interface"}
ParamNames == <<"a", "b", "c", "d">>

ScenarioB ==
    <<ParsedFile("shape.php", NsApp, <<>>,
                 <<CodeElement("class", "Shape", NsApp, Empty, 1, FALSE, TRUE, <<>>),
                   CodeElement("constant", "SIDES", NsApp, <<"Shape">>, 2, FALSE, FALSE, <<>>),
                   CodeElement("method", "make", NsApp, <<"Shape">>, 3, TRUE, FALSE, <<>>)>>,
                 <<>>)>>

ScoreInputs ==
    {<<ParsedFile("one.php", ns, <<>>,
                  <<CodeElement(kind, "thing", ns, cls, 1, static, abstract,
                                SubSeq(ParamNames, 1, n))>>,
                  <<>>)>> :
        kind \in Kinds, ns \in {Empty, NsApp}, cls \in {Empty, <<"Owner">>},
        static \in BOOLEAN, abstract \in BOOLEAN, n \in 0..MaxParams}
    \cup {ScenarioB}

\* No parsed file at all, and files without declarations: script files with
\* nothing but imports and calls at file scope.
ScriptFile(path, uses, usage) == ParsedFile(path, Empty, uses, <<>>, usage)

EmptyInputs ==
    {<<>>}
    \cup {<<ScriptFile("s.php", uses, usage)>> :
             uses \in {<<>>, <<<<"App", "User">>>>},
             usage \in {<<>>, <<UsageElement("function_call", <<"helper">>, Empty, 2)>>}}
    \cup {<<ScriptFile("s.php", <<>>, <<>>),
             ScriptFile("t.php", <<<<"App", "User">>>>,
                        <<UsageElement("instantiation", <<"User">>, Empty, 3)>>)>>}

Inputs == ScenarioAInputs \cup AmbiguityInputs \cup GenericInputs \cup BigInputs
          \cup ScoreInputs \cup EmptyInputs

\* A file whose two classes both have a method run, with one call of helper()
\* inside a method run, inside a class body or at file scope.
TwoClassUsages ==
    {UsageElement("function_call", <<"helper">>, <<"run">>, 3),
     UsageElement("function_call", <<"helper">>, <<"A">>, 4),
     UsageElement("function_call", <<"helper">>, Empty, 9)}

TwoClassInputs ==
    {<<ParsedFile("h.php", Empty, <<>>, <<Function("helper", Empty, 1, <<>>)>>, <<>>),
       ParsedFile("t.php", ns, uses,
                  <<Class("A", ns, 1), Method("run", ns, "A", 2, <<>>),
                    Class("B", ns, 5), Method("run", ns, "B", 6, <<>>)>>,
                  <<u>>)>> :
        ns \in {Empty, NsApp}, uses \in {<<>>, <<<<"Ext", "Thing">>>>},
        u \in TwoClassUsages}

\* Three declarations that share the short name User, of either kind and in
\* any namespace, the first in a file that imports the controller, and a
\* controller in a fourth file that refers to User.
UserDecl(kind, ns, line) ==
    CodeElement(kind, "User", ns, Empty, line, FALSE, FALSE, <<>>)

DeclNamespaces == {Empty, NsApp, NsLib, NsWeb}

IndexUsages ==
    {UsageElement("instantiation", <<"User">>, <<"run">>, 3),
     UsageElement("static_call", <<"User", "::", "create">>, <<"run">>, 3),
     UsageElement("static_call", <<"App", "User", "::", "create">>, <<"run">>, 3),
     UsageElement("function_call", <<"Lib", "User">>, <<"run">>, 3)}

IndexInputs ==
    {<<ParsedFile("u1.php", n1, <<<<"App", "Ctl">>>>, <<UserDecl(k1, n1, 1)>>, <<>>),
       ParsedFile("u2.php", n2, <<>>, <<UserDecl(k2, n2, 1)>>, <<>>),
       ParsedFile("u3.php", n3, <<>>, <<UserDecl(k3, n3, 1)>>, <<>>),
       ParsedFile("ctl.php", nU, <<<<"App", "User">>>>,
                  <<Class("Ctl", nU, 1), Method("run", nU, "Ctl", 2, <<>>)>>,
                  <<u>>)>> :
        n1 \in DeclNamespaces, n2 \in DeclNamespaces, n3 \in DeclNamespaces,
        k1 \in {"class", "function"}, k2 \in {"class", "function"},
        k3 \in {"class", "function"},
        nU \in {Empty, NsApp, NsWeb}, u \in IndexUsages}

(***************************************************************************)
(* ProcessFilesWithProgress: one goroutine per file extracts it and appends *)
(* the result to a shared slice.                                           *)
(***************************************************************************)
\* most files the call is given
NumFiles == 11

\* make(chan struct{}, 10)
maxParsers == 10

\* models.FileInfo with the outcome ParseFile has on it
FileInfo(path, ok) == [Path |-> path, ok |-> ok]

\* the files of a call: n files, those of failing failing to parse
FilesOf(n, failing) == [i \in 1..n |-> FileInfo(i, i \notin failing)]

\* the calls of ProcessFiles / ProcessFilesWithProgress
FileLists ==
    {FilesOf(n, failing) :
        n \in {0, 2, NumFiles},
        failing \in {{}, {1}, {2, NumFiles}, 1..NumFiles}}

\* the dependency tracker while no graph is being built
IdleTracker ==
    /\ parsedFiles = <<>>
    /\ InitTracker
    /\ prevGraph = NoGraph

InitProcess ==
    /\ IdleTracker
    /\ IdleRegistry
    /\ IdleLock
    /\ IdleConfig
    /\ IdleSpinner
    /\ IdlePhp
    /\ files \in FileLists
    /\ progressBar \in BOOLEAN
    /\ pfPc = "loop"
    /\ spawned = 0
    /\ worker = [i \in 1..Len(files) |-> "unspawned"]
    /\ semaphore = 0
    /\ mu = 0
    /\ wg = 0
    /\ results = <<>>
    /\ pbCurrent = 0
    /\ pbUnguarded = 0

\* The goroutines run the same code; two of them at the same position whose
\* files parse with the same outcome differ in the file only.  Of such
\* goroutines the one started first takes the step.
Turn(i) ==
    \A j \in 1..(i - 1) : ~(worker[j] = worker[i] /\ files[j].ok = files[i].ok)

\* progressBar.Update(1) when a sink is supplied: pb.current += 1.  An update
\* made while another goroutine is inside its own update races with it, and
\* one of the two increments can be lost.
Updated(racing) ==
    IF ~progressBar THEN {pbCurrent}
    ELSE IF racing THEN {pbCurrent, pbCurrent + 1}
         ELSE {pbCurrent + 1}

\* for _, file := range files { wg.Add(1); go func(f) {...}(file) }
Spawn ==
    /\ pfPc = "loop"
    /\ spawned < Len(files)
    /\ spawned' = spawned + 1
    /\ wg' = wg + 1
    /\ worker' = [worker EXCEPT ![spawned + 1] = "spawned"]
    /\ UNCHANGED <<files, progressBar, pfPc, semaphore, mu, results,
                   pbCurrent, pbUnguarded>>
    /\ UNCHANGED <<parsedFiles, trackerVars, prevGraph, registryVars, lockVars, configVars, spinnerVars, phpVars>>

\* semaphore <- struct{}{} without regard to the capacity of the channel
Acquire_Unbounded(i) ==
    /\ worker[i] = "spawned"
    /\ Turn(i)
    /\ semaphore' = semaphore + 1
    /\ worker' = [worker EXCEPT ![i] = "parsing"]
    /\ UNCHANGED <<files, progressBar, pfPc, spawned, mu, wg, results,
                   pbCurrent, pbUnguarded>>
    /\ UNCHANGED <<parsedFiles, trackerVars, prevGraph, registryVars, lockVars, configVars, spinnerVars, phpVars>>

\* semaphore <- struct{}{}: blocks while the channel holds maxParsers elements
Acquire(i) ==
    /\ worker[i] = "spawned"
    /\ Turn(i)
    /\ semaphore < maxParsers
    /\ semaphore' = semaphore + 1
    /\ worker' = [worker EXCEPT ![i] = "parsing"]
    /\ UNCHANGED <<files, progressBar, pfPc, spawned, mu, wg, results,
                   pbCurrent, pbUnguarded>>
    /\ UNCHANGED <<parsedFiles, trackerVars, prevGraph, registryVars, lockVars, configVars, spinnerVars, phpVars>>

\* ParseFile whose error is not looked at
ParseFile_IgnoresError(i) ==
    /\ worker[i] = "parsing"
    /\ Turn(i)
    /\ worker' = [worker EXCEPT ![i] = "parsed"]
    /\ UNCHANGED <<files, progressBar, pfPc, spawned, semaphore, mu, wg,
                   results, pbCurrent, pbUnguarded>>
    /\ UNCHANGED <<parsedFiles, trackerVars, prevGraph, registryVars, lockVars, configVars, spinnerVars, phpVars>>

\* parsed, err := p.ParseFile(f.Path) returns
ParseFile(i) ==
    /\ worker[i] = "parsing"
    /\ Turn(i)
    /\ worker' = [worker EXCEPT ![i] = IF files[i].ok THEN "parsed" ELSE "failed"]
    /\ UNCHANGED <<files, progressBar, pfPc, spawned, semaphore, mu, wg,
                   results, pbCurrent, pbUnguarded>>
    /\ UNCHANGED <<parsedFiles, trackerVars, prevGraph, registryVars, lockVars, configVars, spinnerVars, phpVars>>

\* the failure path without the deferred release of the semaphore slot
FailReturn_KeepsSlot(i) ==
    /\ worker[i] = "failed"
    /\ Turn(i)
    /\ pbCurrent' \in Updated(mu # 0 \/ \E j \in 1..Len(files) :
                                            j # i /\ worker[j] = "failed")
    /\ pbUnguarded' = IF progressBar THEN pbUnguarded + 1 ELSE pbUnguarded
    /\ wg' = wg - 1
    /\ worker' = [worker EXCEPT ![i] = "done"]
    /\ UNCHANGED <<files, progressBar, pfPc, spawned, semaphore, mu, results>>
    /\ UNCHANGED <<parsedFiles, trackerVars, prevGraph, registryVars, lockVars, configVars, spinnerVars, phpVars>>

\* err != nil: report, update the progress sink, return; the deferred calls
\* release the semaphore slot and call wg.Done()
FailReturn(i) ==
    /\ worker[i] = "failed"
    /\ Turn(i)
    /\ pbCurrent' \in Updated(mu # 0 \/ \E j \in 1..Len(files) :
                                            j # i /\ worker[j] = "failed")
    /\ pbUnguarded' = IF progressBar THEN pbUnguarded + 1 ELSE pbUnguarded
    /\ semaphore' = semaphore - 1
    /\ wg' = wg - 1
    /\ worker' = [worker EXCEPT ![i] = "done"]
    /\ UNCHANGED <<files, progressBar, pfPc, spawned, mu, results>>
    /\ UNCHANGED <<parsedFiles, trackerVars, prevGraph, registryVars, lockVars, configVars, spinnerVars, phpVars>>

\* mu.Lock()
Lock(i) ==
    /\ worker[i] = "parsed"
    /\ Turn(i)
    /\ mu = 0
    /\ mu' = i
    /\ worker' = [worker EXCEPT ![i] = "locked"]
    /\ UNCHANGED <<files, progressBar, pfPc, spawned, semaphore, wg, results,
                   pbCurrent, pbUnguarded>>
    /\ UNCHANGED <<parsedFiles, trackerVars, prevGraph, registryVars, lockVars, configVars, spinnerVars, phpVars>>

\* parsedFiles = append(parsedFiles, parsed); progress update; mu.Unlock();
\* the deferred calls release the semaphore slot and call wg.Done()
AppendUnlock(i) ==
    /\ worker[i] = "locked"
    /\ mu = i
    /\ results' = Append(results, files[i].Path)
    /\ pbCurrent' \in Updated(\E j \in 1..Len(files) : worker[j] = "failed")
    /\ mu' = 0
    /\ semaphore' = semaphore - 1
    /\ wg' = wg - 1
    /\ worker' = [worker EXCEPT ![i] = "done"]
    /\ UNCHANGED <<files, progressBar, pfPc, spawned, pbUnguarded>>
    /\ UNCHANGED <<parsedFiles, trackerVars, prevGraph, registryVars, lockVars, configVars, spinnerVars, phpVars>>

\* wg.Wait() returns; progressBar.Finish(); return parsedFiles, nil
Return ==
    /\ pfPc = "loop"
    /\ spawned = Len(files)
    /\ wg = 0
    /\ pbCurrent' = IF progressBar THEN Len(files) ELSE pbCurrent
    /\ pfPc' = "returned"
    /\ UNCHANGED <<files, progressBar, spawned, worker, semaphore, mu, wg,
                   results, pbUnguarded>>
    /\ UNCHANGED <<parsedFiles, trackerVars, prevGraph, registryVars, lockVars, configVars, spinnerVars, phpVars>>

NextProcess ==
    \/ Spawn
    \/ \E i \in 1..Len(files) : Acquire(i)
    \/ \E i \in 1..Len(files) : ParseFile(i)
    \/ \E i \in 1..Len(files) : FailReturn(i)
    \/ \E i \in 1..Len(files) : Lock(i)
    \/ \E i \in 1..Len(files) : AppendUnlock(i)
    \/ Return

(***************************************************************************)
(* BuildDependencyGraph at the grain of the graph's lock: the passes take   *)
(* graph.Lock() on entry and release it on return, addDependencyRef takes  *)
(* it for its writes, and other goroutines take graph.RLock() to look at   *)
(* the graph.                                                              *)
(***************************************************************************)
\* most goroutines holding the shared lock at once
MaxReaders == 2

\* the functions that hold the lock from entry to return
LockedPasses == {"createNodes", "calculateMetrics", "identifyPatterns"}

\* the addDependencyRef calls a work item can lead to: none when its source
\* or its target is not found
CallsOf(item) ==
    IF item.kind = "usage"
    THEN LET targetNodeID == findTargetNode(item.usage.Name, item.file.Namespace)
         IN  IF targetNodeID = NoNode \/ targetNodeID \notin DOMAIN Nodes
             THEN {}
             ELSE {[source |-> sourceNode, target |-> targetNodeID,
                    depType |-> item.usage.Type, line |-> item.usage.Line] :
                      sourceNode \in SourceCandidates(item.usage, item.file)}
    ELSE LET fullName == getFullName(item.element.Namespace, item.element.Name)
         IN  IF \/ fullName \notin DOMAIN nodeIndex
                \/ item.importPath \notin DOMAIN nodeIndex
             THEN {}
             ELSE IF \/ nodeIndex[fullName] \notin DOMAIN Nodes
                     \/ nodeIndex[item.importPath] \notin DOMAIN Nodes
                  THEN {}
                  ELSE {[source |-> nodeIndex[fullName],
                         target |-> nodeIndex[item.importPath],
                         depType |-> "imports", line |-> item.element.Line]}

\* dt.graph.Lock() on entry of createNodes, calculateMetrics, identifyPatterns
LockPass ==
    /\ pc \in LockedPasses
    /\ apc = "idle"
    /\ gmu = "none"
    /\ readers = 0
    /\ gmu' = pc
    /\ UNCHANGED <<readers, apc, call>>
    /\ UNCHANGED <<parsedFiles, trackerVars, prevGraph, registryVars, processVars, configVars, spinnerVars, phpVars>>

\* the deferred dt.graph.Unlock() of the pass that has just returned
UnlockPass ==
    /\ gmu \in LockedPasses
    /\ pc # gmu
    /\ gmu' = "none"
    /\ UNCHANGED <<readers, apc, call>>
    /\ UNCHANGED <<parsedFiles, trackerVars, prevGraph, registryVars, processVars, configVars, spinnerVars, phpVars>>

\* the steps of the three passes, taken by the holder of the lock
PassStep ==
    /\ gmu = pc
    /\ \/ CreateNode
       \/ FinishCreateNodes
       \/ calculateMetrics
       \/ identifyPatterns

\* a work item that leads to no write: its source or target is not found, or
\* addDependencyRef returns at once because source and target are the same
SkipItem ==
    /\ gmu = "none"
    /\ apc = "idle"
    /\ (ProcessUsage \/ ProcessImport)
    /\ Nodes' = Nodes

\* a work item is resolved and addDependencyRef is entered with two different
\* nodes
EnterAddDependencyRef ==
    /\ pc = "buildRelationships"
    /\ gmu = "none"
    /\ apc = "idle"
    /\ wi <= Len(WorkItems(parsedFiles))
    /\ LET item == WorkItems(parsedFiles)[wi]
       IN  /\ \E c \in CallsOf(item) :
                 /\ c.source # c.target
                 /\ call' = c
                 /\ applied' = Append(applied, c)
                 /\ lastRef' = [source |-> c.source, target |-> c.target,
                                called |-> TRUE]
           /\ lastItem' = item
           /\ allUsage' = IF item.kind = "usage"
                          THEN Append(allUsage, item.usage) ELSE allUsage
    /\ apc' = "entered"
    /\ UNCHANGED <<parsedFiles, pc, ei, wi, Nodes, TotalNodes, TotalEdges,
                   Orphans, HighlyDepended, ComplexNodes, nodeIndex,
                   namespaceMap, removedShort, prevGraph, gmu, readers>>
    /\ UNCHANGED <<registryVars, processVars, configVars, spinnerVars, phpVars>>

\* addDependencyRef that goes on to its writes without taking the lock
LockGraph_Skipped ==
    /\ apc = "entered"
    /\ apc' = "locked"
    /\ UNCHANGED <<gmu, readers, call>>
    /\ UNCHANGED <<parsedFiles, trackerVars, prevGraph, registryVars, processVars, configVars, spinnerVars, phpVars>>

\* addDependencyRef: dt.graph.Lock()
LockGraph ==
    /\ apc = "entered"
    /\ gmu = "none"
    /\ readers = 0
    /\ gmu' = "addDependencyRef"
    /\ apc' = "locked"
    /\ UNCHANGED <<readers, call>>
    /\ UNCHANGED <<parsedFiles, trackerVars, prevGraph, registryVars, processVars, configVars, spinnerVars, phpVars>>

\* addDependencyRef: add to the source's dependencies
WriteDependencies ==
    /\ apc = "locked"
    /\ Nodes' = [Nodes EXCEPT ![call.source].Dependencies =
                    UpdateRefs(@, call.target, call.depType, call.line)]
    /\ apc' = "dependencies"
    /\ UNCHANGED <<parsedFiles, pc, ei, wi, TotalNodes, TotalEdges, Orphans,
                   HighlyDepended, ComplexNodes, nodeIndex, namespaceMap,
                   allUsage, lastItem, lastRef, removedShort, applied,
                   prevGraph, gmu, readers, call>>
    /\ UNCHANGED <<registryVars, processVars, configVars, spinnerVars, phpVars>>

\* addDependencyRef: add to the target's dependents
WriteDependents ==
    /\ apc = "dependencies"
    /\ Nodes' = [Nodes EXCEPT ![call.target].Dependents =
                    UpdateRefs(@, call.source, call.depType, call.line)]
    /\ apc' = "dependents"
    /\ UNCHANGED <<parsedFiles, pc, ei, wi, TotalNodes, TotalEdges, Orphans,
                   HighlyDepended, ComplexNodes, nodeIndex, namespaceMap,
                   allUsage, lastItem, lastRef, removedShort, applied,
                   prevGraph, gmu, readers, call>>
    /\ UNCHANGED <<registryVars, processVars, configVars, spinnerVars, phpVars>>

\* addDependencyRef: dt.graph.TotalEdges++
CountEdge ==
    /\ apc = "dependents"
    /\ TotalEdges' = TotalEdges + 1
    /\ apc' = "counted"
    /\ UNCHANGED <<parsedFiles, pc, ei, wi, Nodes, TotalNodes, Orphans,
                   HighlyDepended, ComplexNodes, nodeIndex, namespaceMap,
                   allUsage, lastItem, lastRef, removedShort, applied,
                   prevGraph, gmu, readers, call>>
    /\ UNCHANGED <<registryVars, processVars, configVars, spinnerVars, phpVars>>

\* addDependencyRef returns: the deferred dt.graph.Unlock(); the caller goes
\* on with the next work item
UnlockGraph ==
    /\ apc = "counted"
    /\ gmu' = "none"
    /\ apc' = "idle"
    /\ call' = NoArgs
    /\ wi' = wi + 1
    /\ pc' = AfterItem(wi)
    /\ UNCHANGED <<parsedFiles, ei, Nodes, TotalNodes, TotalEdges, Orphans,
                   HighlyDepended, ComplexNodes, nodeIndex, namespaceMap,
                   allUsage, lastItem, lastRef, removedShort, applied,
                   prevGraph, readers>>
    /\ UNCHANGED <<registryVars, processVars, configVars, spinnerVars, phpVars>>

\* another goroutine calls graph.RLock()
RLock ==
    /\ gmu = "none"
    /\ readers < MaxReaders
    /\ readers' = readers + 1
    /\ UNCHANGED <<gmu, apc, call>>
    /\ UNCHANGED <<parsedFiles, trackerVars, prevGraph, registryVars, processVars, configVars, spinnerVars, phpVars>>

\* it calls graph.RUnlock()
RUnlock ==
    /\ readers > 0
    /\ readers' = readers - 1
    /\ UNCHANGED <<gmu, apc, call>>
    /\ UNCHANGED <<parsedFiles, trackerVars, prevGraph, registryVars, processVars, configVars, spinnerVars, phpVars>>

NextLock ==
    \/ LockPass
    \/ PassStep
    \/ UnlockPass
    \/ SkipItem
    \/ EnterAddDependencyRef
    \/ LockGraph
    \/ WriteDependencies
    \/ WriteDependents
    \/ CountEdge
    \/ UnlockGraph
    \/ RLock
    \/ RUnlock

(***************************************************************************)
(* The parser registry: a package-level map from language key to parser,   *)
(* each function holding the registry's mutex for its whole body.          *)
(***************************************************************************)
\* the parsers that may be registered: two pairs of them answer the same
\* Language()
Parsers ==
    {[name |-> "PHPParser", lang |-> "php"],
     [name |-> "LegacyPHPParser", lang |-> "php"],
     [name |-> "DummyParser", lang |-> "dummy"],
     [name |-> "OtherDummyParser", lang |-> "dummy"],
     [name |-> "GoParser", lang |-> "go"]}

\* the language keys asked for: "ruby" has no parser
Languages == {p.lang : p \in Parsers} \cup {"ruby"}

\* p, ok := registry[language]
Lookup(language) ==
    IF language \in DOMAIN registry
    THEN [parser |-> registry[language], ok |-> TRUE]
    ELSE [parser |-> NoParser, ok |-> FALSE]

\* the slices a range over the registry can build: its keys in any order
Listings ==
    LET n == Cardinality(DOMAIN registry)
    IN  {langs \in [1..n -> DOMAIN registry] :
            \A i \in 1..n : \A j \in 1..n : langs[i] = langs[j] => i = j}

\* Register that replaces the parser already registered for the language
Register_Overwrites(p) ==
    /\ registry' = [l \in DOMAIN registry \cup {p.lang} |->
                       IF l = p.lang THEN p ELSE registry[l]]
    /\ regOut' = [NoCall EXCEPT !.op = "Register", !.parser = p,
                                !.lang = p.lang]
    /\ UNCHANGED <<parsedFiles, trackerVars, prevGraph, processVars, lockVars, configVars, spinnerVars, phpVars>>

\* Register(p): panics when p.Language() is registered already
Register(p) ==
    /\ LET lang == p.lang
       IN  IF lang \in DOMAIN registry
           THEN /\ regOut' = [NoCall EXCEPT !.op = "Register", !.parser = p,
                                            !.lang = lang, !.panicked = TRUE]
                /\ UNCHANGED registry
           ELSE /\ registry' = [l \in DOMAIN registry \cup {lang} |->
                                   IF l = lang THEN p ELSE registry[l]]
                /\ regOut' = [NoCall EXCEPT !.op = "Register", !.parser = p,
                                            !.lang = lang]
    /\ UNCHANGED <<parsedFiles, trackerVars, prevGraph, processVars, lockVars, configVars, spinnerVars, phpVars>>

\* Get(language)
Get(language) ==
    /\ regOut' = [NoCall EXCEPT !.op = "Get", !.lang = language,
                                !.parser = Lookup(language).parser,
                                !.ok = Lookup(language).ok]
    /\ UNCHANGED registry
    /\ UNCHANGED <<parsedFiles, trackerVars, prevGraph, processVars, lockVars, configVars, spinnerVars, phpVars>>

\* SupportedLanguages()
SupportedLanguages ==
    /\ \E langs \in Listings :
          regOut' = [NoCall EXCEPT !.op = "SupportedLanguages",
                                   !.langs = langs]
    /\ UNCHANGED registry
    /\ UNCHANGED <<parsedFiles, trackerVars, prevGraph, processVars, lockVars, configVars, spinnerVars, phpVars>>

NextRegistry ==
    \/ \E p \in Parsers : Register(p)
    \/ \E language \in Languages : Get(language)
    \/ SupportedLanguages

(***************************************************************************)
(* The start of main: parseArgs, LoadConfig, mergeConfigs, and the exits   *)
(* before the parser is looked up.                                         *)
(***************************************************************************)
\* most command-line arguments
MaxArgs == 3

\* the words of the command line
Tokens == {"-v", "-h", "--version", "-o", "--exclude", "-l", "--bogus",
           "./proj", "out.json", "Go"}

\* strings.HasPrefix(arg, "-")
HasDashPrefix(arg) ==
    arg \in {"-v", "--verbose", "-h", "--help", "--version", "-o", "--output",
             "--exclude", "-l", "--language", "--bogus"}

\* strings.ToLower
ToLower(str) ==
    CASE str = "Go" -> "go"
      [] str = "Count" -> "count"
      [] str = "./proj" -> "./proj"
      [] str = "out.json" -> "out.json"
      [] OTHER -> str

\* the outcome of parseArgs: the settings, or nil and an error
Parsed(a) == [argv |-> <<a>>, err |-> ""]
Failed(msg) == [argv |-> <<>>, err |-> msg]

\* parseArgs: the loop over args from index i on (args[i] here is args[i-1]
\* there), and what follows the loop
RECURSIVE parseLoop(_, _, _)
parseLoop(args, i, a) ==
    IF i > Len(args)
    THEN IF a.RootPath = ""
         THEN Failed("root path is required")
         ELSE LET withOutput ==
                      IF a.OutputFile = "" /\ a.Verbose
                      THEN [a EXCEPT !.OutputFile = "tukey-results.json"]
                      ELSE a
              IN  IF withOutput.Language = ""
                  THEN Parsed([withOutput EXCEPT !.Language = "php"])
                  ELSE Parsed(withOutput)
    ELSE LET arg == args[i]
         IN  CASE arg \in {"-v", "--verbose"} ->
                    parseLoop(args, i + 1, [a EXCEPT !.Verbose = TRUE])
               [] arg \in {"-h", "--help"} ->
                    Parsed([a EXCEPT !.ShowHelp = TRUE])
               [] arg = "--version" ->
                    Parsed([a EXCEPT !.ShowVersion = TRUE])
               [] arg \in {"-o", "--output"} ->
                    IF i >= Len(args)
                    THEN Failed("--output requires a filename")
                    ELSE parseLoop(args, i + 2,
                                   [a EXCEPT !.OutputFile = args[i + 1]])
               [] arg = "--exclude" ->
                    IF i >= Len(args)
                    THEN Failed("--exclude requires a directory name")
                    ELSE parseLoop(args, i + 2,
                                   [a EXCEPT !.ExcludeDirs =
                                                Append(@, args[i + 1])])
               [] arg \in {"-l", "--language"} ->
                    IF i >= Len(args)
                    THEN Failed("--language requires a language name")
                    ELSE parseLoop(args, i + 2,
                                   [a EXCEPT !.Language =
                                                ToLower(args[i + 1])])
               [] OTHER ->
                    IF HasDashPrefix(arg)
                    THEN Failed("unknown flag")
                    ELSE parseLoop(args, i + 1, [a EXCEPT !.RootPath = arg])

\* parseArgs
parseArgs(args) ==
    IF Len(args) = 0
    THEN Parsed([NewConfig EXCEPT !.ShowHelp = TRUE])
    ELSE parseLoop(args, 1, NewConfig)

\* mergeConfigs
mergeConfigs(a, cfg) ==
    LET a1 == IF a.Language = "" /\ cfg.Language # ""
              THEN [a EXCEPT !.Language = cfg.Language] ELSE a
        a2 == IF Len(cfg.ExcludeDirs) > 0
              THEN [a1 EXCEPT !.ExcludeDirs = @ \o cfg.ExcludeDirs] ELSE a1
        a3 == IF a2.OutputFile = "" /\ cfg.OutputFile # ""
              THEN [a2 EXCEPT !.OutputFile = cfg.OutputFile] ELSE a2
    IN  IF ~a3.Verbose /\ cfg.Verbose
        THEN [a3 EXCEPT !.Verbose = TRUE] ELSE a3

\* what a config file can set
FileConfigs ==
    [Language : {"", "go"}, ExcludeDirs : {<<>>, <<"vendor">>},
     OutputFile : {"", "cfg.json"}, Verbose : BOOLEAN]

\* the config files main can meet: none, one that parses, one that cannot be
\* read
ConfigFiles ==
    {NoConfigFile}
      \cup {[exists |-> TRUE, readable |-> TRUE, content |-> c] :
               c \in FileConfigs}
      \cup {[exists |-> TRUE, readable |-> FALSE, content |-> EmptyFileConfig]}

\* the command lines
ArgLists == UNION {[1..n -> Tokens] : n \in 0..MaxArgs}

\* main: argv, err := parseArgs(); an error ends the program
ParseArgs ==
    /\ mainPc = "start"
    /\ LET r == parseArgs(osArgs)
       IN  IF r.err # ""
           THEN /\ mainPc' = "exit1"
                /\ UNCHANGED argv
           ELSE /\ mainPc' = "parsed"
                /\ argv' = r.argv[1]
    /\ UNCHANGED <<osArgs, configFile, fileCfg>>
    /\ UNCHANGED <<parsedFiles, trackerVars, prevGraph, registryVars,
                   processVars, lockVars, spinnerVars, phpVars>>

\* main: fileCfg, err := config.LoadConfig(argv.RootPath); an error is
\* printed and main goes on
LoadConfig ==
    /\ mainPc = "parsed"
    /\ fileCfg' = IF ~configFile.exists
                  THEN <<EmptyFileConfig>>
                  ELSE IF configFile.readable
                       THEN <<configFile.content>>
                       ELSE <<>>
    /\ mainPc' = "loaded"
    /\ UNCHANGED <<osArgs, configFile, argv>>
    /\ UNCHANGED <<parsedFiles, trackerVars, prevGraph, registryVars,
                   processVars, lockVars, spinnerVars, phpVars>>

\* main: argv = mergeConfigs(argv, fileCfg); a nil fileCfg is dereferenced
MergeConfigs ==
    /\ mainPc = "loaded"
    /\ IF fileCfg = <<>>
       THEN /\ mainPc' = "panic"
            /\ UNCHANGED argv
       ELSE /\ argv' = mergeConfigs(argv, fileCfg[1])
            /\ mainPc' = "merged"
    /\ UNCHANGED <<osArgs, configFile, fileCfg>>
    /\ UNCHANGED <<parsedFiles, trackerVars, prevGraph, registryVars,
                   processVars, lockVars, spinnerVars, phpVars>>

\* main: the version and help exits; otherwise parser.Get(argv.Language) is
\* next
SelectParser ==
    /\ mainPc = "merged"
    /\ mainPc' = IF argv.ShowVersion \/ argv.ShowHelp THEN "exit0" ELSE "get"
    /\ UNCHANGED <<osArgs, configFile, argv, fileCfg>>
    /\ UNCHANGED <<parsedFiles, trackerVars, prevGraph, registryVars,
                   processVars, lockVars, spinnerVars, phpVars>>

NextConfig ==
    \/ ParseArgs
    \/ LoadConfig
    \/ MergeConfigs
    \/ SelectParser

(***************************************************************************)
(* The specification.                                                      *)
(***************************************************************************)
Init ==
    /\ parsedFiles \in Inputs
    /\ InitTracker
    /\ prevGraph = NoGraph
    /\ IdleRegistry
    /\ IdleProcess
    /\ IdleLock
    /\ IdleConfig
    /\ IdleSpinner
    /\ IdlePhp

Next ==
    \/ CreateNode
    \/ FinishCreateNodes
    \/ ProcessUsage
    \/ ProcessImport
    \/ calculateMetrics
    \/ identifyPatterns

Spec == Init /\ [][Next]_vars

\* BuildDependencyGraph is sequential code that nothing suspends: a step that
\* can be taken is taken.  The runs are those on the empty list, on files
\* without declarations and on the smaller families.
InitFair ==
    /\ parsedFiles \in EmptyInputs \cup ScoreInputs \cup ScenarioAInputs
                        \cup TwoClassInputs
    /\ InitTracker
    /\ prevGraph = NoGraph
    /\ IdleRegistry
    /\ IdleProcess
    /\ IdleLock
    /\ IdleConfig
    /\ IdleSpinner
    /\ IdlePhp

FairSpec == InitFair /\ [][Next]_vars /\ WF_vars(Next)

\* one call of ProcessFiles
SpecProcess == InitProcess /\ [][NextProcess]_vars

\* one call of ProcessFiles under the Go scheduler: a goroutine that can take
\* a step is eventually run, and a send on the semaphore or a Lock that has
\* become possible stays possible until some goroutine takes it
FairSpecProcess == InitProcess /\ [][NextProcess]_vars /\ WF_vars(NextProcess)

\* BuildDependencyGraph next to goroutines that read the graph
InitLock ==
    /\ parsedFiles \in GenericInputs \cup ScenarioAInputs
    /\ InitTracker
    /\ prevGraph = NoGraph
    /\ IdleRegistry
    /\ IdleProcess
    /\ IdleLock
    /\ IdleConfig
    /\ IdleSpinner
    /\ IdlePhp

SpecLock == InitLock /\ [][NextLock]_vars

\* the parser package after the registry's initialisation, before any init()
\* has registered a parser
InitRegistry ==
    /\ IdleTracker
    /\ IdleRegistry
    /\ IdleProcess
    /\ IdleLock
    /\ IdleConfig
    /\ IdleSpinner
    /\ IdlePhp

SpecRegistry == InitRegistry /\ [][NextRegistry]_vars

\* main is started with some command line in a project with some config file
InitConfig ==
    /\ IdleTracker
    /\ IdleRegistry
    /\ IdleProcess
    /\ IdleLock
    /\ IdleSpinner
    /\ IdlePhp
    /\ osArgs \in ArgLists
    /\ configFile \in ConfigFiles
    /\ argv = NewConfig
    /\ fileCfg = <<>>
    /\ mainPc = "start"

SpecConfig == InitConfig /\ [][NextConfig]_vars

(***************************************************************************)
(* Spinner: Start launches an animation goroutine that prints a frame      *)
(* every delay until the done channel is closed; Stop closes the channel   *)
(* and waits for the goroutines, once.                                     *)
(***************************************************************************)
\* everything outside the Spinner
nonSpinnerVars == <<parsedFiles, trackerVars, prevGraph, registryVars,
                    processVars, lockVars, configVars, phpVars>>

\* the animation goroutines that have been started
Started == {g \in 1..MaxStarts : anim[g] # "unstarted"}

\* Start: s.wg.Add(1); go func() {...}()
Start(c) ==
    /\ stopPc[c] = "idle"
    /\ Started # 1..MaxStarts
    /\ LET g == Cardinality(Started) + 1
       IN  anim' = [anim EXCEPT ![g] = "select"]
    /\ sWg' = sWg + 1
    /\ UNCHANGED <<sDone, sOnce, frame, stopPc, seen, stopped, sPanic>>
    /\ UNCHANGED nonSpinnerVars

\* select { case <-s.done: ... default: ... }
Select(g) ==
    /\ anim[g] = "select"
    /\ anim' = [anim EXCEPT ![g] = IF sDone THEN "done" ELSE "default"]
    /\ UNCHANGED <<sDone, sWg, sOnce, frame, stopPc, seen, stopped, sPanic>>
    /\ UNCHANGED nonSpinnerVars

\* default: print the frame, sleep, i++
Tick(g) ==
    /\ anim[g] = "default"
    /\ frame' = [frame EXCEPT ![g] = (@ + 1) % NumFrames]
    /\ anim' = [anim EXCEPT ![g] = "select"]
    /\ UNCHANGED <<sDone, sWg, sOnce, stopPc, seen, stopped, sPanic>>
    /\ UNCHANGED nonSpinnerVars

\* case <-s.done: clear the line and return; the deferred s.wg.Done() runs
Exit(g) ==
    /\ anim[g] = "done"
    /\ anim' = [anim EXCEPT ![g] = "exited"]
    /\ sWg' = sWg - 1
    /\ UNCHANGED <<sDone, sOnce, frame, stopPc, seen, stopped, sPanic>>
    /\ UNCHANGED nonSpinnerVars

\* Stop: s.once.Do(...) runs the function for the first caller, returns at
\* once when the function has run, and blocks while another caller runs it
EnterStop(c) ==
    /\ stopPc[c] = "idle"
    /\ seen' = [seen EXCEPT ![c] = Started]
    /\ stopPc' = [stopPc EXCEPT ![c] =
           IF sOnce = "fresh" THEN "close"
           ELSE IF sOnce = "done" THEN "idle" ELSE "blocked"]
    /\ sOnce' = IF sOnce = "fresh" THEN "running" ELSE sOnce
    /\ stopped' = IF sOnce = "done" THEN stopped \cup Started ELSE stopped
    /\ UNCHANGED <<sDone, sWg, anim, frame, sPanic>>
    /\ UNCHANGED nonSpinnerVars

\* close(s.done), which panics on a closed channel
CloseDone(c) ==
    /\ stopPc[c] = "close"
    /\ sDone' = TRUE
    /\ sPanic' = (sPanic \/ sDone)
    /\ stopPc' = [stopPc EXCEPT ![c] = "wait"]
    /\ UNCHANGED <<sWg, sOnce, anim, frame, seen, stopped>>
    /\ UNCHANGED nonSpinnerVars

\* s.wg.Wait() returns, the function of once.Do returns, Stop returns
WaitReturn(c) ==
    /\ stopPc[c] = "wait"
    /\ sWg = 0
    /\ sOnce' = "done"
    /\ stopPc' = [stopPc EXCEPT ![c] = "idle"]
    /\ stopped' = stopped \cup seen[c]
    /\ UNCHANGED <<sDone, sWg, anim, frame, seen, sPanic>>
    /\ UNCHANGED nonSpinnerVars

\* once.Do returns for a caller that waited for the running function
Unblock(c) ==
    /\ stopPc[c] = "blocked"
    /\ sOnce = "done"
    /\ stopPc' = [stopPc EXCEPT ![c] = "idle"]
    /\ stopped' = stopped \cup seen[c]
    /\ UNCHANGED <<sDone, sWg, sOnce, anim, frame, seen, sPanic>>
    /\ UNCHANGED nonSpinnerVars

\* the steps of the animation goroutines
AnimNext == \E g \in 1..MaxStarts : Select(g) \/ Tick(g) \/ Exit(g)

\* the steps inside a Stop call
StopNext ==
    \E c \in 1..MaxCallers : CloseDone(c) \/ WaitReturn(c) \/ Unblock(c)

NextSpinner ==
    \/ \E c \in 1..MaxCallers : Start(c)
    \/ \E c \in 1..MaxCallers : EnterStop(c)
    \/ \E c \in 1..MaxCallers : CloseDone(c)
    \/ \E c \in 1..MaxCallers : WaitReturn(c)
    \/ \E c \in 1..MaxCallers : Unblock(c)
    \/ \E g \in 1..MaxStarts : Select(g)
    \/ \E g \in 1..MaxStarts : Tick(g)
    \/ \E g \in 1..MaxStarts : Exit(g)

\* a new Spinner
InitSpinner ==
    /\ IdleTracker
    /\ IdleRegistry
    /\ IdleProcess
    /\ IdleLock
    /\ IdleConfig
    /\ IdleSpinner
    /\ IdlePhp

\* a Spinner under the Go scheduler: a goroutine that can step is eventually
\* run; whether and when Start and Stop are called is up to the callers
FairSpecSpinner ==
    InitSpinner /\ [][NextSpinner]_vars /\ WF_vars(AnimNext) /\ WF_vars(StopNext)

(***************************************************************************)
(* The PHP parser: ParseFile reads a file line by line, matches each line  *)
(* against its patterns and keeps the enclosing class and function and the *)
(* brace depth.  A line is the sequence of its tokens: words, variables,   *)
(* punctuation and the runs of white space between them.  No name of the   *)
(* vocabulary is a proper prefix of another one, so a substring test for a *)
(* keyword, one space and a name is a test on three adjacent tokens.       *)
(***************************************************************************)
\* the lines of a file
MaxFileLines == 4

\* everything outside the parser
nonPhpVars == <<parsedFiles, trackerVars, prevGraph, registryVars,
                processVars, lockVars, configVars, spinnerVars>>

\* runs of white space: one space and two spaces
Blank == {" ", "  "}

Visibilities == {"public", "private", "protected"}
PhpKeywords == Visibilities \cup {"namespace", "use", "as", "class", "abstract",
                                  "function", "static", "const", "new"}
PhpNames == {"App", "Lib", "User", "Repo", "run", "helper", "Count",
             "format_phone", "make", "MAX", "LIMIT", "phone"}

\* what [A-Za-z_][A-Za-z0-9_]* matches in full, and what [A-Z_][A-Z0-9_]* does
Words == PhpKeywords \cup PhpNames
UpperWords == {"MAX", "LIMIT"}

\* variables, and the name after the dollar sign
PhpVars == {"$x", "$request"}
VarName(v) == IF v = "$x" THEN "x" ELSE IF v = "$request" THEN "request" ELSE v

\* the token at position i, "" past the end of the line
Tok(l, i) == IF i \in 1..Len(l) THEN l[i] ELSE ""

\* \s*: the first position from i on that holds no white space
RECURSIVE SkipBlank(_, _)
SkipBlank(l, i) ==
    IF Tok(l, i) \in Blank THEN SkipBlank(l, i + 1) ELSE i

\* strings.Count(line, tok)
CountTok(l, tok) == Cardinality({i \in 1..Len(l) : l[i] = tok})

\* strings.Contains(line, kw + " " + name)
ContainsDecl(l, kw, name) ==
    \E i \in 1..Len(l) : l[i] = kw /\ Tok(l, i + 1) = " " /\ Tok(l, i + 2) = name

\* the comment and empty lines the loop skips
IsSkipped(l) == Tok(l, SkipBlank(l, 1)) \in {"//", "#", "/*", ""}

\* namespacePattern; the captured name, "" when the line does not match
namespaceMatch(l) ==
    LET a == SkipBlank(l, 1)
        b == SkipBlank(l, a + 1)
    IN  IF /\ Tok(l, a) = "namespace"
           /\ Tok(l, a + 1) \in Blank
           /\ Tok(l, b) \in Words
           /\ Tok(l, SkipBlank(l, b + 1)) = ";"
        THEN l[b] ELSE ""

\* usePattern; the captured path, "" when the line does not match
useMatch(l) ==
    LET a == SkipBlank(l, 1)
        b == SkipBlank(l, a + 1)
        c == SkipBlank(l, b + 1)
        d == SkipBlank(l, c + 1)
    IN  IF /\ Tok(l, a) = "use"
           /\ Tok(l, a + 1) \in Blank
           /\ Tok(l, b) \in Words
           /\ \/ Tok(l, c) = ";"
              \/ /\ Tok(l, c) = "as"
                 /\ Tok(l, c + 1) \in Blank
                 /\ Tok(l, d) \in Words
                 /\ Tok(l, SkipBlank(l, d + 1)) = ";"
        THEN l[b] ELSE ""

\* classPattern
classMatch(l) ==
    LET a == SkipBlank(l, 1)
        abstract == Tok(l, a) = "abstract" /\ Tok(l, a + 1) \in Blank
        b == IF abstract THEN SkipBlank(l, a + 1) ELSE a
        n == SkipBlank(l, b + 1)
    IN  IF Tok(l, b) = "class" /\ Tok(l, b + 1) \in Blank /\ Tok(l, n) \in Words
        THEN [ok |-> TRUE, name |-> l[n], abstract |-> abstract]
        ELSE [ok |-> FALSE, name |-> "", abstract |-> FALSE]

\* parseParameters on the tokens between the parentheses: of every
\* comma-separated part the name after its first dollar sign
RECURSIVE parseParameters(_)
parseParameters(ts) ==
    IF ts = <<>> THEN <<>>
    ELSE LET commas == {i \in 1..Len(ts) : ts[i] = ","}
             k == IF commas = {} THEN Len(ts) + 1
                  ELSE CHOOSE i \in commas : \A j \in commas : i <= j
             vs == SelectSeq(SubSeq(ts, 1, k - 1), LAMBDA t : t \in PhpVars)
         IN  (IF vs = <<>> THEN <<>> ELSE <<VarName(vs[1])>>)
                 \o parseParameters(SubSeq(ts, k + 1, Len(ts)))

NoSignature == [ok |-> FALSE, name |-> "", params |-> <<>>, ret |-> ""]

\* function\s+(name)\s*\(([^)]*)\)\s*(?::\s*(type))? from position i on
Signature(l, i) ==
    LET n == SkipBlank(l, i + 1)
        open == SkipBlank(l, n + 1)
        closes == {c \in (open + 1)..Len(l) : l[c] = ")"}
    IN  IF /\ Tok(l, i) = "function"
           /\ Tok(l, i + 1) \in Blank
           /\ Tok(l, n) \in Words
           /\ Tok(l, open) = "("
           /\ closes # {}
        THEN LET close == CHOOSE c \in closes : \A d \in closes : c <= d
                 colon == SkipBlank(l, close + 1)
                 type == SkipBlank(l, colon + 1)
             IN  [ok |-> TRUE, name |-> l[n],
                  params |-> parseParameters(SubSeq(l, open + 1, close - 1)),
                  ret |-> IF Tok(l, colon) = ":" /\ Tok(l, type) \in Words
                          THEN l[type] ELSE ""]
        ELSE NoSignature

\* functionPattern
functionMatch(l) == Signature(l, SkipBlank(l, 1))

\* methodPattern: optional visibility, static and abstract, then a signature
methodMatch(l) ==
    LET a == SkipBlank(l, 1)
        vis == IF Tok(l, a) \in Visibilities THEN l[a] ELSE ""
        b == IF vis # "" THEN SkipBlank(l, a + 1) ELSE a
        static == Tok(l, b) = "static" /\ Tok(l, b + 1) \in Blank
        c == IF static THEN SkipBlank(l, b + 1) ELSE b
        abstract == Tok(l, c) = "abstract" /\ Tok(l, c + 1) \in Blank
        d == IF abstract THEN SkipBlank(l, c + 1) ELSE c
    IN  [sig |-> Signature(l, d), vis |-> vis, static |-> static,
         abstract |-> abstract]

\* propertyPattern
propertyMatch(l) ==
    LET a == SkipBlank(l, 1)
        b == SkipBlank(l, a + 1)
        static == Tok(l, b) = "static" /\ Tok(l, b + 1) \in Blank
        c == IF static THEN SkipBlank(l, b + 1) ELSE b
    IN  IF /\ Tok(l, a) \in Visibilities
           /\ Tok(l, a + 1) \in Blank
           /\ Tok(l, c) \in PhpVars
        THEN [ok |-> TRUE, name |-> VarName(l[c]), vis |-> l[a], static |-> static]
        ELSE [ok |-> FALSE, name |-> "", vis |-> "", static |-> FALSE]

\* constantPattern: (public|private|protected\s+)?const\s+(NAME)\s*=
constantMatch(l) ==
    LET a == SkipBlank(l, 1)
        vis == IF Tok(l, a) = "protected" /\ Tok(l, a + 1) \in Blank
               THEN "protected"
               ELSE IF Tok(l, a) \in {"public", "private"} THEN l[a] ELSE ""
        b == IF vis = "protected" THEN SkipBlank(l, a + 1)
             ELSE IF vis # "" THEN a + 1 ELSE a
        n == SkipBlank(l, b + 1)
    IN  IF /\ Tok(l, b) = "const"
           /\ Tok(l, b + 1) \in Blank
           /\ Tok(l, n) \in UpperWords
           /\ Tok(l, SkipBlank(l, n + 1)) = "="
        THEN [ok |-> TRUE, name |-> l[n], vis |-> IF vis = "" THEN "public" ELSE vis]
        ELSE [ok |-> FALSE, name |-> "", vis |-> ""]

\* isBuiltinFunction: the table, looked up with the lower-cased name
builtins ==
    {"array", "count", "isset", "empty", "strlen", "substr", "strpos",
     "str_replace", "preg_match", "preg_replace", "explode", "implode", "trim",
     "ltrim", "rtrim", "strtolower", "strtoupper", "ucfirst", "ucwords",
     "sprintf", "printf", "file_get_contents", "file_put_contents", "fopen",
     "fclose", "json_encode", "json_decode", "serialize", "unserialize", "md5",
     "sha1", "hash", "base64_encode", "base64_decode", "time", "date",
     "strtotime", "mktime", "rand", "mt_rand", "shuffle", "array_merge",
     "array_keys", "array_values", "array_filter", "array_map", "sort",
     "var_dump", "print_r", "die", "exit", "echo", "print", "include",
     "require", "include_once", "require_once", "defined", "define",
     "constant", "get_class", "is_array", "is_string", "is_numeric", "is_null",
     "is_object", "call_user_func", "call_user_func_array", "func_get_args",
     "config", "env", "app", "view", "route", "url", "asset", "redirect",
     "back", "old", "session", "auth", "bcrypt", "collect", "dd", "dump", "if",
     "else", "elseif", "endif", "for", "foreach", "while", "do", "switch",
     "case", "default", "try", "catch", "finally", "throw", "return"}
isBuiltinFunction(funcName) == ToLower(funcName) \in builtins

\* the positions a pattern of parseUsage matches at, in line order
Positions(l, Match(_)) ==
    SelectSeq([i \in 1..Len(l) |-> i], Match)

\* the usages one pattern yields: one per position, named by NameAt
UsagesAt(l, ps, type, NameAt(_), context, n) ==
    [k \in 1..Len(ps) |-> UsageElement(type, NameAt(ps[k]), context, n)]

\* parseUsage: static calls, method calls, instantiations and bare calls of
\* line n, in that order
parseUsage(l, n, function, class) ==
    LET context == IF function = Empty THEN class ELSE function
        Member(t) == t \in Words \cup PhpVars
        IsStatic(i) == l[i] \in Words /\ Tok(l, i + 1) = "::" /\ Member(Tok(l, i + 2))
        IsMethod(i) == l[i] \in PhpVars /\ Tok(l, i + 1) = "->" /\ Member(Tok(l, i + 2))
        IsNew(i) == /\ l[i] = "new"
                    /\ Tok(l, i + 1) \in Blank
                    /\ Tok(l, SkipBlank(l, i + 1)) \in Words
        Called(i) == IF l[i] \in PhpVars THEN VarName(l[i]) ELSE l[i]
        IsCall(i) ==
            /\ l[i] \in Words \cup PhpVars
            /\ Tok(l, SkipBlank(l, i + 1)) = "("
            /\ CountTok(l, "->") = 0
            /\ CountTok(l, "::") = 0
            /\ ~isBuiltinFunction(Called(i))
            /\ ~ContainsDecl(l, "function", Called(i))
            /\ ~ContainsDecl(l, "class", Called(i))
        StaticName(i) == <<l[i], "::", l[i + 2]>>
        MethodName(i) == <<l[i + 2]>>
        NewName(i) == <<l[SkipBlank(l, i + 1)]>>
        CallName(i) == <<Called(i)>>
    IN  UsagesAt(l, Positions(l, IsStatic), "static_call", StaticName, context, n)
        \o UsagesAt(l, Positions(l, IsMethod), "method_call", MethodName, context, n)
        \o UsagesAt(l, Positions(l, IsNew), "instantiation", NewName, context, n)
        \o UsagesAt(l, Positions(l, IsCall), "function_call", CallName, context, n)

\* models.CodeElement as the parser fills it
PhpElement(type, name, ns, cls, line, static, abstract, params, vis, ret) ==
    [Visibility |-> vis, ReturnType |-> ret]
        @@ CodeElement(type, name, ns, cls, line, static, abstract, params)

\* for scanner.Scan() { ... }: one line of the file
ScanLine ==
    /\ lineNum < Len(src)
    /\ lineNum' = lineNum + 1
    /\ LET n == lineNum + 1
           line == src[n]
       IN  IF IsSkipped(line)
           THEN UNCHANGED <<inClass, inFunction, braceDepth, parsed>>
           ELSE LET depth == braceDepth + CountTok(line, "{") - CountTok(line, "}")
                    ns == IF namespaceMatch(line) # ""
                          THEN <<namespaceMatch(line)>> ELSE parsed.Namespace
                    uses == IF useMatch(line) # ""
                            THEN Append(parsed.Uses, <<useMatch(line)>>)
                            ELSE parsed.Uses
                    cm == classMatch(line)
                    class == IF cm.ok THEN <<cm.name>> ELSE inClass
                    mm == methodMatch(line)
                    isMethod == class # Empty /\ mm.sig.ok
                    fm == functionMatch(line)
                    isFunction == class = Empty /\ fm.ok
                    function == IF isMethod THEN <<mm.sig.name>>
                                ELSE IF isFunction THEN <<fm.name>>
                                ELSE inFunction
                    pm == propertyMatch(line)
                    km == constantMatch(line)
                    declared ==
                        (IF cm.ok
                         THEN <<PhpElement("class", cm.name, ns, Empty, n, FALSE,
                                           cm.abstract, <<>>, "", "")>>
                         ELSE <<>>)
                        \o (IF isMethod
                            THEN <<PhpElement("method", mm.sig.name, ns, class, n,
                                              mm.static, mm.abstract,
                                              mm.sig.params,
                                              IF mm.vis = "" THEN "public"
                                              ELSE mm.vis,
                                              mm.sig.ret)>>
                            ELSE <<>>)
                        \o (IF isFunction
                            THEN <<PhpElement("function", fm.name, ns, Empty, n,
                                              FALSE, FALSE, fm.params, "",
                                              fm.ret)>>
                            ELSE <<>>)
                        \o (IF class # Empty /\ pm.ok
                            THEN <<PhpElement("property", pm.name, ns, class, n,
                                              pm.static, FALSE, <<>>, pm.vis,
                                              "")>>
                            ELSE <<>>)
                        \o (IF km.ok
                            THEN <<PhpElement("constant", km.name, ns, class, n,
                                              FALSE, FALSE, <<>>, km.vis, "")>>
                            ELSE <<>>)
                IN  /\ braceDepth' = depth
                    /\ parsed' = [parsed EXCEPT
                           !.Namespace = ns,
                           !.Uses = uses,
                           !.Elements = @ \o declared,
                           !.Usage = @ \o parseUsage(line, n, function, class)]
                    /\ inClass' = IF depth = 0 THEN Empty ELSE class
                    /\ inFunction' = IF depth = 0 THEN Empty ELSE function
    /\ UNCHANGED src
    /\ UNCHANGED nonPhpVars

NextPhp == ScanLine

\* the lines the files are made of
LnNamespaceApp == <<"namespace", " ", "App", ";">>
LnNamespaceLib == <<"namespace", " ", "Lib", ";">>
LnClass == <<"class", " ", "User">>
LnClassBrace == <<"class", " ", "User", " ", "{">>
LnOpen == <<"{">>
LnClose == <<"}">>
LnMethod == <<"  ", "public", " ", "function", " ", "run", "(", ")", " ", "{">>
LnFunction == <<"function", " ", "helper", "(", ")", " ", "{">>
LnFunctionWide == <<"function", "  ", "helper", "(", ")", " ", "{">>
LnCall == <<"  ", "helper", "(", ")", ";">>
LnBuiltin == <<"  ", "Count", "(", "$x", ")", ";">>
LnCallWithArrow ==
    <<"  ", "format_phone", "(", "$request", "->", "phone", ")", ";">>
LnConstant == <<"  ", "const", " ", "MAX", " ", "=", " ", "Repo", "::", "LIMIT", ";">>
LnComment == <<"//", " ", "}">>

PhpLines == {LnNamespaceApp, LnNamespaceLib, LnClass, LnClassBrace, LnOpen,
             LnClose, LnMethod, LnFunction, LnFunctionWide, LnCall, LnBuiltin,
             LnCallWithArrow, LnConstant, LnComment}

\* the files ParseFile is run on
PhpFiles == [1..MaxFileLines -> PhpLines]

\* ParseFile has opened a file
InitPhp ==
    /\ IdleTracker
    /\ IdleRegistry
    /\ IdleProcess
    /\ IdleLock
    /\ IdleConfig
    /\ IdleSpinner
    /\ src \in PhpFiles
    /\ lineNum = 0
    /\ inClass = Empty
    /\ inFunction = Empty
    /\ braceDepth = 0
    /\ parsed = NewParsedFile

SpecPhp == InitPhp /\ [][NextPhp]_vars

\* the analysis of files whose declarations compete for one short name
InitIndex ==
    /\ parsedFiles \in IndexInputs
    /\ InitTracker
    /\ prevGraph = NoGraph
    /\ IdleRegistry
    /\ IdleProcess
    /\ IdleLock
    /\ IdleConfig
    /\ IdleSpinner
    /\ IdlePhp

SpecIndex == InitIndex /\ [][Next]_vars

\* the analysis run twice on the same files
InitRerun ==
    /\ parsedFiles \in TwoClassInputs
    /\ InitTracker
    /\ prevGraph = NoGraph
    /\ IdleRegistry
    /\ IdleProcess
    /\ IdleLock
    /\ IdleConfig
    /\ IdleSpinner
    /\ IdlePhp

NextRerun == Next \/ Rerun

SpecRerun == InitRerun /\ [][NextRerun]_vars

(***************************************************************************)
(* Properties.                                                             *)
(***************************************************************************)
NodeIDs == DOMAIN Nodes
Deps(id) == Nodes[id].Dependencies
Dependents(id) == Nodes[id].Dependents

RECURSIVE SumOver(_, _)
SumOver(S, f) ==
    IF S = {} THEN 0
    ELSE LET x == CHOOSE y \in S : TRUE
         IN  f[x] + SumOver(S \ {x}, f)

\* the number of (source, target) pairs that have a dependency edge
NumEdges == SumOver(NodeIDs, [id \in NodeIDs |-> Cardinality(DOMAIN Deps(id))])

\* C1: edge symmetry.  In every state, after any sequence of usage and import
\* edge applications, s.dependencies has an entry for t exactly when
\* t.dependents has an entry for s, and the two entries carry the same
\* occurrence count and the same list of lines.
C1_EdgeSymmetry ==
    \A s \in NodeIDs :
        /\ \A t \in DOMAIN Deps(s) :
              /\ t \in NodeIDs
              /\ s \in DOMAIN Dependents(t)
              /\ Dependents(t)[s].Count = Deps(s)[t].Count
              /\ Dependents(t)[s].Lines = Deps(s)[t].Lines
        /\ \A t \in DOMAIN Dependents(s) :
              /\ t \in NodeIDs
              /\ s \in DOMAIN Deps(t)

\* an import edge has just been applied while some edge already carries two
\* occurrences
C1_Witness ==
    /\ lastItem.kind = "import"
    /\ lastRef.called
    /\ lastRef.source # lastRef.target
    /\ \E s \in NodeIDs : \E t \in DOMAIN Deps(s) : Deps(s)[t].Count >= 2

\* C2: totalEdges is the number of distinct (source, target) edges created; a
\* reference to a pair that already has an edge leaves totalEdges unchanged.
C2_TotalEdgesCountsCreations == TotalEdges = NumEdges

\* C3: no self-edges.  A resolved reference whose source and target are the
\* same node changes no dependencies or dependents map and leaves totalEdges
\* unchanged, and no state holds an edge from a node to itself.
C3_NoSelfEdges ==
    /\ [](\A id \in NodeIDs :
             /\ id \notin DOMAIN Deps(id)
             /\ id \notin DOMAIN Dependents(id))
    /\ [][(wi' # wi /\ lastRef'.called /\ lastRef'.source = lastRef'.target)
            => (Nodes' = Nodes /\ TotalEdges' = TotalEdges)]_vars

\* a reference from a node to itself has just been resolved
C3_Witness ==
    /\ lastRef.called
    /\ lastRef.source = lastRef.target

\* the declarations of the input, in the order pass 1 ingests them
Decls == Declarations(parsedFiles)

\* C4: every declaration ingested in pass 1 receives a distinct node id, no
\* insertion overwrites a node: after pass 1 totalNodes is the number of
\* declarations of all parsed files.
C4_TotalNodesCountsDeclarations ==
    pc # "createNodes" => TotalNodes = Len(Decls)

\* the declarations that carry the short name n
NamedIdx(n) == {i \in 1..Len(Decls) : Decls[i].element.Name = n}
ShortNames == {Decls[i].element.Name : i \in 1..Len(Decls)}
NsOf(n) == {Decls[i].element.Namespace : i \in NamedIdx(n)}
AllNamespaces == Namespaces \cup {NsWeb}

\* exactly two declarations carry the short name n: two classes in two
\* different namespaces, neither of them the global one
IsClassPair(n) ==
    /\ Cardinality(NamedIdx(n)) = 2
    /\ \A i \in NamedIdx(n) : Decls[i].element.Type = "class"
    /\ Cardinality(NsOf(n)) = 2
    /\ Empty \notin NsOf(n)

\* a usage of the class by its short name alone: the plain name, or Name::member
ShortUsageNames(n) == {n, n \o <<"::", "create">>}

\* C5 as stated: given two classes with the same short name in different
\* namespaces (and no other declaration of that name), once both are indexed the short-name entry is absent, a usage
\* of the short name alone resolves to neither class and creates no edge
\* whatever the namespace of the using file, and a usage of a fully-qualified
\* name resolves to the class of that full name.
C5_AmbiguityPolicy ==
    pc # "createNodes" =>
        \A n \in ShortNames : IsClassPair(n) =>
            /\ n \notin DOMAIN nodeIndex
            /\ \A ns \in AllNamespaces : \A u \in ShortUsageNames(n) :
                  findTargetNode(u, ns) = NoNode
            /\ (lastItem.kind = "usage" /\ lastItem.usage.Name \in ShortUsageNames(n))
                  => ~lastRef.called
            /\ \A i \in NamedIdx(n) : \A ns \in AllNamespaces :
                  findTargetNode(getFullName(Decls[i].element.Namespace, n), ns)
                      = NodeID(Decls[i].element)

\* C5 as amended: given two classes with the same short name in different
\* namespaces (and no other declaration of that name), once both are indexed
\* the short-name entry is absent; a usage of the short name alone resolves to
\* neither class and creates no edge when the using file's namespace is that
\* of neither class, and resolves to the class of the using file's namespace
\* otherwise; a usage of a fully-qualified name resolves to the class of that
\* full name.
C5_AmbiguityPolicyAmended ==
    pc # "createNodes" =>
        \A n \in ShortNames : IsClassPair(n) =>
            /\ n \notin DOMAIN nodeIndex
            /\ n \notin DOMAIN namespaceMap
            /\ \A ns \in AllNamespaces \ NsOf(n) : \A u \in ShortUsageNames(n) :
                  findTargetNode(u, ns) = NoNode
            /\ ( /\ lastItem.kind = "usage"
                 /\ lastItem.usage.Name \in ShortUsageNames(n)
                 /\ lastItem.file.Namespace \notin NsOf(n) )
                  => ~lastRef.called
            /\ \A i \in NamedIdx(n) :
                  /\ \A u \in ShortUsageNames(n) :
                        findTargetNode(u, Decls[i].element.Namespace)
                            = NodeID(Decls[i].element)
                  /\ \A ns \in AllNamespaces :
                        findTargetNode(getFullName(Decls[i].element.Namespace, n), ns)
                            = NodeID(Decls[i].element)

\* the controller's usage of the short name User, in a namespace of neither
\* User class, has found its source and been dropped
C5_Witness ==
    /\ IsClassPair(<<"User">>)
    /\ lastItem.kind = "usage"
    /\ lastItem.usage.Name \in ShortUsageNames(<<"User">>)
    /\ lastItem.file.Namespace \notin NsOf(<<"User">>)
    /\ SourceCandidates(lastItem.usage, lastItem.file) # {}
    /\ ~lastRef.called
    /\ TotalEdges = 0

NoDuplicates(s) == \A i, j \in 1..Len(s) : i # j => s[i] # s[j]
NumDependents(id) == Cardinality(DOMAIN Dependents(id))
HasNoEdges(id) == DOMAIN Deps(id) = {} /\ DOMAIN Dependents(id) = {}

\* C6: when BuildDependencyGraph returns, mostDepended is the node list in
\* non-increasing number of dependents, cut to min(10, number of nodes); every
\* node in it has at least as many dependents as every node left out.
C6_MostDependedRanked ==
    pc = "done" =>
        /\ Len(HighlyDepended) = Min(10, Cardinality(NodeIDs))
        /\ Range(HighlyDepended) \subseteq NodeIDs
        /\ NoDuplicates(HighlyDepended)
        /\ \A i, j \in 1..Len(HighlyDepended) : i < j =>
              NumDependents(HighlyDepended[i]) >= NumDependents(HighlyDepended[j])
        /\ \A x \in Range(HighlyDepended) : \A y \in NodeIDs \ Range(HighlyDepended) :
              NumDependents(x) >= NumDependents(y)

\* C7: when BuildDependencyGraph returns, orphans holds exactly the nodes with
\* zero dependencies and zero dependents, each exactly once.
C7_OrphansExact ==
    pc = "done" =>
        /\ Range(Orphans) = {id \in NodeIDs : HasNoEdges(id)}
        /\ NoDuplicates(Orphans)

\* the build has returned with orphans, with nodes that only depend and with
\* nodes that are only depended on
C7_Witness ==
    /\ pc = "done"
    /\ Orphans # <<>>
    /\ \E id \in NodeIDs : DOMAIN Deps(id) # {} /\ DOMAIN Dependents(id) = {}
    /\ \E id \in NodeIDs : DOMAIN Deps(id) = {} /\ DOMAIN Dependents(id) # {}

\* C8: when BuildDependencyGraph returns, mostComplex is the node list in
\* non-increasing final score, cut to min(10, number of nodes); every node in
\* it has a final score at least that of every node left out.
C8_MostComplexRanked ==
    pc = "done" =>
        /\ Len(ComplexNodes) = Min(10, Cardinality(NodeIDs))
        /\ Range(ComplexNodes) \subseteq NodeIDs
        /\ NoDuplicates(ComplexNodes)
        /\ \A i, j \in 1..Len(ComplexNodes) : i < j =>
              Nodes[ComplexNodes[i]].Score >= Nodes[ComplexNodes[j]].Score
        /\ \A x \in Range(ComplexNodes) : \A y \in NodeIDs \ Range(ComplexNodes) :
              Nodes[x].Score >= Nodes[y].Score

\* the build has returned a graph of more than 10 nodes, some with edges, and
\* a node left out of mostComplex has a lower score than one in it
C8_Witness ==
    /\ pc = "done"
    /\ Cardinality(NodeIDs) > 10
    /\ TotalEdges > 0
    /\ \E x \in Range(ComplexNodes) : \E y \in NodeIDs \ Range(ComplexNodes) :
          Nodes[x].Score > Nodes[y].Score

\* Scenario A: the node of the declared function, and the nodes of the two
\* calling methods
FormatPhone == NodeID(parsedFiles[1].Elements[1])
Caller(k) == NodeID(parsedFiles[k].Elements[2])
CallLine(k) == parsedFiles[k].Usage[1].Line
FunctionNodes == {id \in NodeIDs : Nodes[id].Type = "function"}

\* C9 as stated: in scenario A the graph has one node for the function and one
\* dependency edge to it, with occurrenceCount 2 and two recorded lines,
\* mirrored on the function node.
C9_ScenarioA ==
    (parsedFiles \in ScenarioAInputs /\ pc = "done") =>
        /\ FunctionNodes = {FormatPhone}
        /\ \E s \in NodeIDs :
              /\ DOMAIN Dependents(FormatPhone) = {s}
              /\ Dependents(FormatPhone)[s].Count = 2
              /\ Len(Dependents(FormatPhone)[s].Lines) = 2
              /\ FormatPhone \in DOMAIN Deps(s)
              /\ Deps(s)[FormatPhone].Count = 2
              /\ Len(Deps(s)[FormatPhone].Lines) = 2

\* C9 as amended: in scenario A the graph has one node for the function and
\* one dependency edge to it from each calling method node, each with
\* occurrenceCount 1 and the one line of its call, mirrored as one dependent
\* entry each on the function node: two edges, two dependents and totalEdges 2
\* when the two methods have different node ids, and one edge, from the method
\* of the later file, when they share kind, namespace, name and line.
C9_ScenarioAAmended ==
    (parsedFiles \in ScenarioAInputs /\ pc = "done") =>
        /\ FunctionNodes = {FormatPhone}
        /\ DOMAIN Dependents(FormatPhone) = {Caller(2), Caller(3)}
        /\ \A s \in DOMAIN Dependents(FormatPhone) :
              /\ Dependents(FormatPhone)[s].Count = 1
              /\ Len(Dependents(FormatPhone)[s].Lines) = 1
              /\ DOMAIN Deps(s) = {FormatPhone}
              /\ Deps(s)[FormatPhone].Count = 1
              /\ Deps(s)[FormatPhone].Lines = Dependents(FormatPhone)[s].Lines
              /\ Deps(s)[FormatPhone].Type = "function_call"
        /\ Deps(Caller(3))[FormatPhone].Lines = <<CallLine(3)>>
        /\ Caller(2) # Caller(3) =>
              /\ Deps(Caller(2))[FormatPhone].Lines = <<CallLine(2)>>
              /\ TotalEdges = 2
        /\ Caller(2) = Caller(3) => TotalEdges = 1

\* scenario A has run to the end with two calling methods that share their
\* name and differ in their namespace
C9_Witness ==
    /\ parsedFiles \in ScenarioAInputs
    /\ pc = "done"
    /\ Caller(2) # Caller(3)
    /\ Nodes[Caller(2)].Name = Nodes[Caller(3)].Name
    /\ Cardinality(DOMAIN Dependents(FormatPhone)) = 2

\* a class node without any edge
LoneClasses == {id \in NodeIDs : Nodes[id].Type = "class" /\ HasNoEdges(id)}

\* the declaration a node was built from: the last one ingested with its id
LastDeclOf(id) ==
    LET last == CHOOSE i \in 1..Len(Decls) :
                   /\ NodeID(Decls[i].element) = id
                   /\ \A j \in (i + 1)..Len(Decls) : NodeID(Decls[j].element) # id
    IN  Decls[last].element

\* fewer than 10 nodes have a higher score
RanksInTop10(id) ==
    Cardinality({y \in NodeIDs : Nodes[y].Score > Nodes[id].Score}) < 10

\* C10 as stated: a class node with zero inbound and zero outbound edges is in
\* orphans and not in mostDepended; it is in mostComplex only if its static
\* score alone ranks it among the top 10 scores.
C10_ScenarioC ==
    pc = "done" =>
        \A c \in LoneClasses :
            /\ c \in Range(Orphans)
            /\ c \notin Range(HighlyDepended)
            /\ c \in Range(ComplexNodes) => RanksInTop10(c)

\* C10 as amended: a class node with zero inbound and zero outbound edges is in
\* orphans; it can be in mostDepended, and is whenever the graph has at most
\* 10 nodes; its final score is its static score, and it is in mostComplex
\* only if that score ranks it among the top 10 scores.
C10_ScenarioCAmended ==
    pc = "done" =>
        \A c \in LoneClasses :
            /\ c \in Range(Orphans)
            /\ Cardinality(NodeIDs) <= 10 => c \in Range(HighlyDepended)
            /\ Nodes[c].Score = calculateComplexityScore(LastDeclOf(c))
            /\ c \in Range(ComplexNodes) => RanksInTop10(c)

\* the build has returned a graph of more than 10 nodes in which a class
\* without edges is an orphan and outside mostComplex
C10_Witness ==
    /\ pc = "done"
    /\ \E c \in LoneClasses :
          /\ c \in Range(Orphans)
          /\ c \notin Range(ComplexNodes)
          /\ Cardinality(NodeIDs) > 10

\* C11: for a fixed set of source files the resulting graph is the same in
\* every run: the nodes with their edges (source, target, kind, count, lines)
\* and final scores, totalEdges, and the contents of orphans, mostDepended and
\* mostComplex, for every order in which the parsed files were appended and
\* every iteration order of the node map.
C11_Deterministic ==
    (pc = "done" /\ prevGraph # NoGraph) =>
        /\ Nodes = prevGraph.Nodes
        /\ TotalEdges = prevGraph.TotalEdges
        /\ Range(Orphans) = Range(prevGraph.Orphans)
        /\ Range(HighlyDepended) = Range(prevGraph.HighlyDepended)
        /\ Range(ComplexNodes) = Range(prevGraph.ComplexNodes)

\* the static score as the claim states it
StaticScoreOf(e) ==
    LET perParam == Len(e.Parameters)
        ifStatic == IF e.IsStatic THEN 1 ELSE 0
        ifAbstract == IF e.IsAbstract THEN 2 ELSE 0
    IN  IF e.Type = "class" THEN 5 + ifAbstract
        ELSE IF e.Type \in {"function", "method"}
             THEN 3 + perParam + ifStatic + ifAbstract
             ELSE IF e.Type = "property" THEN 2 + ifStatic
                  ELSE 1

\* C12: the static complexity score of a declaration is: class = 5, +2 if
\* abstract; function or method = 3, +1 per parameter, +1 if static, +2 if
\* abstract; property = 2, +1 if static; constant or any unrecognized kind =
\* 1; it depends on no other attribute.  The node just created carries that
\* score, and so does every node until the connectivity term is added.
C12_StaticScore ==
    /\ (pc = "createNodes" /\ ei > 1) =>
          Nodes[NodeID(Decls[ei - 1].element)].Score
              = StaticScoreOf(Decls[ei - 1].element)
    /\ pc \in {"buildRelationships", "calculateMetrics"} =>
          \A id \in NodeIDs : Nodes[id].Score = StaticScoreOf(LastDeclOf(id))

\* scenario B has been ingested: the abstract class, its constant and its
\* static method carry their static scores
C12_Witness ==
    /\ parsedFiles = ScenarioB
    /\ pc = "calculateMetrics"
    /\ {Nodes[id].Score : id \in {n \in NodeIDs : Nodes[n].Type = "class"}} = {7}
    /\ {Nodes[id].Score : id \in {n \in NodeIDs : Nodes[n].Type = "method"}} = {4}
    /\ {Nodes[id].Score : id \in {n \in NodeIDs : Nodes[n].Type = "constant"}} = {1}

\* C13: when BuildDependencyGraph returns, each node's score equals its static
\* score plus the number of its outgoing dependencies (distinct targets) plus
\* 2 times the number of its incoming dependents (distinct sources), the
\* connectivity term being added exactly once; every score is an integer >= 1.
C13_FinalScore ==
    pc \in {"identifyPatterns", "done"} =>
        \A id \in NodeIDs :
            /\ Nodes[id].Score
                  = calculateComplexityScore(LastDeclOf(id))
                    + Cardinality(DOMAIN Deps(id)) + 2 * NumDependents(id)
            /\ Nodes[id].Score \in Nat
            /\ Nodes[id].Score >= 1

\* the build has returned a graph in which a node has both dependencies and
\* dependents and some edge carries more than one occurrence
C13_Witness ==
    /\ pc = "done"
    /\ \E id \in NodeIDs : DOMAIN Deps(id) # {} /\ DOMAIN Dependents(id) # {}
    /\ \E s \in NodeIDs : \E t \in DOMAIN Deps(s) : Deps(s)[t].Count >= 2

\* the target of a usage or import work item resolves to no declared node
TargetUnresolved(item) ==
    IF item.kind = "usage"
    THEN findTargetNode(item.usage.Name, item.file.Namespace) \notin NodeIDs
    ELSE \/ item.importPath \notin DOMAIN nodeIndex
         \/ nodeIndex[item.importPath] \notin NodeIDs

\* C14: a usage or an import whose target name resolves to no declared node
\* leaves the graph unchanged (no edge added, no count or line changed,
\* totalEdges unchanged) and raises no error; the usages and imports after it
\* are still processed: the step moves on to the next work item, or to the
\* metrics pass after the last one.
C14_UnresolvedDropped ==
    [][(/\ pc = "buildRelationships"
        /\ wi <= Len(WorkItems(parsedFiles))
        /\ TargetUnresolved(WorkItems(parsedFiles)[wi]))
         => /\ Nodes' = Nodes
            /\ TotalEdges' = TotalEdges
            /\ wi' = wi + 1
            /\ pc' = IF wi < Len(WorkItems(parsedFiles))
                     THEN "buildRelationships" ELSE "calculateMetrics"]_vars

\* a usage whose source was found and whose target is declared nowhere has
\* been dropped, and the import after it has created the only edge
C14_Witness ==
    /\ wi = 3
    /\ WorkItems(parsedFiles)[1].kind = "usage"
    /\ SourceCandidates(WorkItems(parsedFiles)[1].usage, WorkItems(parsedFiles)[1].file) # {}
    /\ TargetUnresolved(WorkItems(parsedFiles)[1])
    /\ lastItem.kind = "import"
    /\ lastRef.called
    /\ TotalEdges = 1

\* C15: BuildDependencyGraph terminates and returns a graph for every input
\* list of ParsedFiles, including the empty list and files with no
\* declarations; in that case the graph has zero nodes, zero edges and empty
\* orphans, mostDepended and mostComplex.
C15_Terminates ==
    /\ <>(pc = "done")
    /\ []((pc = "done" /\ Decls = <<>>) =>
             /\ Nodes = <<>>
             /\ TotalNodes = 0
             /\ TotalEdges = 0
             /\ Orphans = <<>>
             /\ HighlyDepended = <<>>
             /\ ComplexNodes = <<>>)

\* the build has returned for files that declare nothing, after handling the
\* usage of one of them
C15_Witness ==
    /\ pc = "done"
    /\ parsedFiles # <<>>
    /\ Decls = <<>>
    /\ allUsage # <<>>
    /\ TotalNodes = 0

\* the goroutines that are inside ParseFile
Parsing == {i \in 1..Len(files) : worker[i] = "parsing"}

\* C16: during ProcessFiles, at every instant at most 10 files are being
\* extracted (inside ParseFile) concurrently, whatever the number of input
\* files.
C16_AtMostTenParsing == Cardinality(Parsing) <= 10

\* ten goroutines are inside ParseFile and an eleventh waits for a slot
C16_Witness ==
    /\ Cardinality(Parsing) = 10
    /\ \E i \in 1..Len(files) : worker[i] = "spawned"

\* the input files whose extraction succeeds
Succeeding == {i \in 1..Len(files) : files[i].ok}

\* C17: ProcessFiles returns, with a nil error, exactly one ParsedFile for each
\* input file whose extraction succeeded and none for a file whose extraction
\* failed, under every interleaving of the workers and whether or not a
\* progress sink is supplied; a failing file never prevents another file's
\* result from being appended.
C17_OneResultPerSuccess ==
    /\ NoDuplicates(results)
    /\ Range(results) \subseteq {files[i].Path : i \in Succeeding}
    /\ pfPc = "returned" =>
          /\ Range(results) = {files[i].Path : i \in Succeeding}
          /\ Len(results) = Cardinality(Succeeding)
          /\ \A i \in 1..Len(files) : worker[i] = "done"

\* a call without a progress sink has returned the results of more than ten
\* files although two extractions failed, that of the second file among them
C17_Witness ==
    /\ pfPc = "returned"
    /\ ~progressBar
    /\ Len(files) > 10
    /\ ~files[2].ok
    /\ Len(results) = Len(files) - 2

\* the occurrence counts of all dependency entries of the graph
SumCounts ==
    SumOver(NodeIDs,
            [id \in NodeIDs |->
                SumOver(DOMAIN Deps(id),
                        [t \in DOMAIN Deps(id) |-> Deps(id)[t].Count])])

\* C18: a reader that holds the graph's shared lock never observes a
\* half-built edge pair: in every state visible to it, a dependency entry on
\* the source exists iff the mirrored dependent entry on the target exists
\* with the same count, and totalEdges already reflects that application; node
\* creation and each edge-application step run entirely under the exclusive
\* lock.
C18_ReadersSeeWholeEdges ==
    /\ readers > 0 =>
          /\ \A s \in NodeIDs : \A t \in NodeIDs :
                /\ (t \in DOMAIN Deps(s)) <=> (s \in DOMAIN Dependents(t))
                /\ t \in DOMAIN Deps(s) =>
                      Deps(s)[t].Count = Dependents(t)[s].Count
          /\ TotalEdges = SumCounts
          /\ apc \in {"idle", "entered"}
          /\ pc = "createNodes" => Nodes = <<>>
    /\ apc \in {"locked", "dependencies", "dependents", "counted"} =>
          gmu = "addDependencyRef"
    /\ (pc = "createNodes" /\ ei > 1) => gmu = "createNodes"

\* a reader holds the shared lock between two edge applications, the second
\* of them already past its self check and waiting for the exclusive lock
C18_Witness ==
    /\ readers > 0
    /\ apc = "entered"
    /\ TotalEdges > 0

\* the number of places of a listing that hold the language key
Occurrences(langs, lang) ==
    Cardinality({i \in DOMAIN langs : langs[i] = lang})

\* C19: after Register(p) succeeds, Get(p.Language()) returns (p, true) and
\* SupportedLanguages lists that key exactly once; Register of a parser whose
\* language key is already registered panics and leaves the registry
\* unchanged, the first parser staying registered; every key listed by
\* SupportedLanguages is retrievable by Get.
C19_Registry ==
    [][/\ \A p \in Parsers :
             Register(p) =>
                IF p.lang \in DOMAIN registry
                THEN /\ regOut'.panicked
                     /\ registry' = registry
                     /\ Lookup(p.lang)' = Lookup(p.lang)
                ELSE /\ ~regOut'.panicked
                     /\ Lookup(p.lang)' = [parser |-> p, ok |-> TRUE]
                     /\ \A langs \in Listings' :
                           Occurrences(langs, p.lang) = 1
       /\ \A p \in Parsers :
             (Lookup(p.lang).ok /\ Lookup(p.lang).parser = p) =>
                /\ Lookup(p.lang)' = [parser |-> p, ok |-> TRUE]
                /\ \A langs \in Listings' : Occurrences(langs, p.lang) = 1
       /\ regOut'.op = "Get" =>
             /\ regOut'.ok <=> regOut'.lang \in DOMAIN registry
             /\ regOut'.ok => regOut'.parser = registry[regOut'.lang]
       /\ regOut'.op = "SupportedLanguages" =>
             \A i \in DOMAIN regOut'.langs :
                /\ regOut'.langs[i] \in DOMAIN registry'
                /\ registry'[regOut'.langs[i]].lang = regOut'.langs[i]
                /\ Occurrences(regOut'.langs, regOut'.langs[i]) = 1
      ]_vars

\* a second parser for "php" has just been refused, and the first one is
\* still the registered one, next to a parser of another language
C19_Witness ==
    /\ regOut.op = "Register"
    /\ regOut.panicked
    /\ regOut.parser.name = "LegacyPHPParser"
    /\ Lookup("php") = [parser |-> [name |-> "PHPParser", lang |-> "php"],
                        ok |-> TRUE]
    /\ Cardinality(DOMAIN registry) > 1

\* C20: configuration merge gives the command line priority and the config
\* file supplies defaults: when no language flag is given on the command line
\* and the project config file sets language L, the language used to select
\* the parser after parseArgs followed by mergeConfigs is L; likewise a
\* config-file outputFile is used when no -o flag is given.
C20_ConfigFileDefaults ==
    (mainPc = "get" /\ fileCfg # <<>>) =>
       /\ (/\ Range(osArgs) \cap {"-l", "--language"} = {}
           /\ fileCfg[1].Language # "")
             => argv.Language = fileCfg[1].Language
       /\ (/\ Range(osArgs) \cap {"-o", "--output"} = {}
           /\ fileCfg[1].OutputFile # "")
             => argv.OutputFile = fileCfg[1].OutputFile

\* C21: once the short-name entry for a name has been removed from the index
\* because of a conflict, no declaration ingested later in the same run adds a
\* short-name entry for that name again: from the removal on, lookups of that
\* bare name in the short-name index fail until the end of the run.
C21_RemovedShortNameStaysRemoved ==
    \A n \in removedShort : n \notin DOMAIN nodeIndex

\* the declarations pass 1 has ingested so far
Ingested == 1..Min(ei - 1, Len(Decls))

\* C22: the fully-qualified-name index is always populated: after pass 1, for
\* every declaration the index maps its fully-qualified name to the id of a
\* node with that fully-qualified name, and ingesting a later declaration (in
\* particular a namespaced declaration whose short name equals a global
\* declaration's name) never removes a fully-qualified-name entry.
C22_FullNameAlwaysIndexed ==
    \A i \in Ingested :
        LET fullName == getFullName(Decls[i].element.Namespace,
                                    Decls[i].element.Name)
        IN  /\ fullName \in DOMAIN nodeIndex
            /\ nodeIndex[fullName] \in DOMAIN Nodes
            /\ getFullName(Nodes[nodeIndex[fullName]].Namespace,
                           Nodes[nodeIndex[fullName]].Name) = fullName

\* C23: after pass 1, whenever classFullNameByShortName (namespaceMap) has an
\* entry n -> f, the short name n is unambiguous: the short-name index still
\* has an entry for n and it refers to the class whose full name is f; an
\* entry never survives a conflict on n caused by a declaration of any kind
\* or namespace.
C23_NamespaceMapUnambiguous ==
    pc # "createNodes" =>
        \A n \in DOMAIN namespaceMap :
            /\ n \in DOMAIN nodeIndex
            /\ nodeIndex[n] \in DOMAIN Nodes
            /\ Nodes[nodeIndex[n]].Type = "class"
            /\ getFullName(Nodes[nodeIndex[n]].Namespace,
                           Nodes[nodeIndex[n]].Name) = namespaceMap[n]
            /\ Cardinality(NamedIdx(n)) = 1

\* the search indexes after the first k declarations: <<nodeIndex, namespaceMap>>
RECURSIVE IndexAfter(_)
IndexAfter(k) ==
    IF k = 0 THEN <<Empty, Empty>>
    ELSE LET before == IndexAfter(k - 1)
         IN  IndexElement(before[1], before[2], Decls[k].element)

\* the place of a file in the input list
FilePos(path) ==
    CHOOSE i \in 1..Len(parsedFiles) : parsedFiles[i].Path = path

\* C24: no edge is created before the symbol index is complete: in
\* BuildDependencyGraph every declaration of every file has been turned into a
\* node and indexed before the first usage or import is resolved, so a usage
\* in one file can resolve to a declaration in a file that comes later in the
\* input list.
C24_IndexCompleteBeforeEdges ==
    /\ pc = "createNodes" =>
          /\ wi = 1
          /\ applied = <<>>
          /\ TotalEdges = 0
          /\ \A id \in NodeIDs : HasNoEdges(id)
    /\ pc # "createNodes" =>
          /\ ei = Len(Decls) + 1
          /\ \A i \in 1..Len(Decls) : NodeID(Decls[i].element) \in NodeIDs
          /\ nodeIndex = IndexAfter(Len(Decls))[1]
          /\ namespaceMap = IndexAfter(Len(Decls))[2]

\* a usage has just been resolved to a declaration of a file that comes later
\* in the input list than the file of the usage
C24_Witness ==
    /\ lastItem.kind = "usage"
    /\ lastRef.called
    /\ lastRef.source # lastRef.target
    /\ FilePos(Nodes[lastRef.source].File) < FilePos(Nodes[lastRef.target].File)
    /\ TotalEdges = 1

\* C25: a usage that occurred outside any trackable element (its context is
\* empty, i.e. top-level script code) has no source node and is dropped: it
\* never produces an edge, even when the file also declares classes or
\* functions.
C25_FileScopeUsageDropped ==
    (lastItem.kind = "usage" /\ lastItem.usage.Context = Empty) =>
        ~(lastRef.called /\ lastRef.source # lastRef.target)

\* the fully-qualified name of a node
FullNameOf(id) == getFullName(Nodes[id].Namespace, Nodes[id].Name)

\* the index holds a full-name entry for the name: an entry whose node has
\* that fully-qualified name
HasFullNameEntry(fullName) ==
    /\ fullName \in DOMAIN nodeIndex
    /\ nodeIndex[fullName] \in NodeIDs
    /\ FullNameOf(nodeIndex[fullName]) = fullName

\* the static-call names checked: the class part alone or qualified, with
\* two different members
Members == {"create", "find"}
StaticNames ==
    {cls \o <<"::", m>> :
        cls \in {<<"User">>, <<"App", "User">>, <<"Lib", "User">>, <<"Ctl">>,
                 <<"Gone">>},
        m \in Members}

\* the target of a static-call name as the three steps give it
StaticTarget(name, namespace) ==
    LET className == ClassPart(name)
        fullName == getFullName(namespace, className)
    IN  IF HasFullNameEntry(fullName)
        THEN nodeIndex[fullName]
        ELSE IF /\ className \in DOMAIN namespaceMap
                /\ HasFullNameEntry(namespaceMap[className])
             THEN nodeIndex[namespaceMap[className]]
             ELSE IF /\ className \in DOMAIN nodeIndex
                     /\ nodeIndex[className] \in NodeIDs
                     /\ \/ Nodes[nodeIndex[className]].Namespace # Empty
                        \/ Nodes[nodeIndex[className]].File # ""
                  THEN nodeIndex[className]
                  ELSE NoNode

\* C26: for a usage name containing '::', the target is the first success of,
\* in this order: (1) the full-name entry for namespace\className of the using
\* file; (2) classFullNameByShortName[className] looked up in the full-name
\* index; (3) the short-name entry for className, only if it still exists and
\* the node it names has a non-empty namespace or file path; if all three
\* fail the result is 'no target'.  The member part after '::' never
\* influences the result.
C26_StaticCallResolution ==
    pc # "createNodes" =>
        /\ \A name \in StaticNames : \A ns \in AllNamespaces :
              /\ findTargetNode(name, ns) = StaticTarget(name, ns)
              /\ \A m \in Members :
                    findTargetNode(ClassPart(name) \o <<"::", m>>, ns)
                        = findTargetNode(name, ns)
        /\ ( /\ lastItem.kind = "usage"
             /\ IsStaticName(lastItem.usage.Name)
             /\ lastRef.called )
               => lastRef.target = StaticTarget(lastItem.usage.Name,
                                                lastItem.file.Namespace)

\* the plain names checked: short, qualified, and one that nothing declares
PlainNames ==
    {<<"User">>, <<"App", "User">>, <<"Lib", "User">>, <<"helper">>,
     <<"Lib", "helper">>, <<"B">>, <<"Ctl">>, <<"run">>, <<"Gone">>}

\* the later steps for a plain name: namespace\name, then the class map
PlainTargetLater(name, namespace) ==
    IF HasFullNameEntry(getFullName(namespace, name))
    THEN nodeIndex[getFullName(namespace, name)]
    ELSE IF /\ name \in DOMAIN namespaceMap
            /\ HasFullNameEntry(namespaceMap[name])
         THEN nodeIndex[namespaceMap[name]]
         ELSE NoNode

\* the target of a plain name when the first step accepts full-name entries
\* only
PlainTarget(name, namespace) ==
    IF HasFullNameEntry(name) THEN nodeIndex[name]
    ELSE PlainTargetLater(name, namespace)

\* the target of a plain name when the first step accepts any entry under
\* the name
PlainTargetAnyEntry(name, namespace) ==
    IF name \in DOMAIN nodeIndex THEN nodeIndex[name]
    ELSE PlainTargetLater(name, namespace)

\* a usage of a plain name has been handled and its source was found
PlainUsageHandled ==
    /\ lastItem.kind = "usage"
    /\ ~IsStaticName(lastItem.usage.Name)
    /\ SourceCandidates(lastItem.usage, lastItem.file) # {}

\* C27 as stated: for a plain usage name (no '::'), the target is the first
\* success of, in this order: exact lookup of the bare name in the full-name
\* index, then namespace\name with the using file's namespace, then
\* classFullNameByShortName[name] looked up in the full-name index; if all
\* fail the usage is dropped.  In particular a bare name hits only a full-name
\* entry at the first step, never a short-name entry of a namespaced
\* declaration.
C27_PlainNameResolution ==
    pc # "createNodes" =>
        /\ \A name \in PlainNames : \A ns \in AllNamespaces :
              findTargetNode(name, ns) = PlainTarget(name, ns)
        /\ PlainUsageHandled =>
              LET t == PlainTarget(lastItem.usage.Name, lastItem.file.Namespace)
              IN  IF t = NoNode THEN ~lastRef.called
                  ELSE lastRef.called /\ lastRef.target = t

\* C27 as amended: for a plain usage name, the target is the first success
\* of, in this order: the index entry under the bare name, whether it is the
\* full-name entry of a global declaration or the surviving short-name entry
\* of a namespaced declaration; then the full-name entry for namespace\name
\* with the using file's namespace; then classFullNameByShortName[name] looked
\* up in the full-name index; if all fail the usage is dropped.
C27_PlainNameResolutionAmended ==
    pc # "createNodes" =>
        /\ \A name \in PlainNames : \A ns \in AllNamespaces :
              findTargetNode(name, ns) = PlainTargetAnyEntry(name, ns)
        /\ PlainUsageHandled =>
              LET t == PlainTargetAnyEntry(lastItem.usage.Name,
                                          lastItem.file.Namespace)
              IN  IF t = NoNode THEN ~lastRef.called
                  ELSE lastRef.called /\ lastRef.target = t

\* a call of helper() in namespace App has been resolved, at the first step,
\* through the short-name entry of the function Lib\helper
C27_Witness ==
    /\ PlainUsageHandled
    /\ lastItem.usage.Name = <<"helper">>
    /\ lastItem.file.Namespace = NsApp
    /\ lastRef.called
    /\ FullNameOf(lastRef.target) = <<"Lib", "helper">>
    /\ ~HasFullNameEntry(<<"helper">>)
    /\ TotalEdges > 0

\* the class of the last import item resolved: its own node and the node the
\* import path names
ImportHandled == lastItem.kind = "import"
ImportingClass == NodeID(lastItem.element)

\* C28: for each import path of a file and each class declared in that same
\* file, if the path exactly matches an indexed full name then an edge of
\* kind 'imports' is recorded whose source is that class's own node (the
\* class declared in the importing file) and whose target is the imported
\* declaration's node; otherwise no imports edge is recorded.
C28_ImportEdges ==
    ImportHandled =>
        IF HasFullNameEntry(lastItem.importPath)
        THEN /\ lastRef.called
             /\ lastRef.source = ImportingClass
             /\ lastRef.target = nodeIndex[lastItem.importPath]
             /\ lastRef.target \in DOMAIN Deps(ImportingClass)
             /\ Deps(ImportingClass)[lastRef.target].Type = "imports"
        ELSE ~lastRef.called

\* the non-self references applied so far from s to t, in application order,
\* and their source lines
AppliedTo(s, t) ==
    SelectSeq(applied, LAMBDA r : r.source = s /\ r.target = t)
LinesOf(refs) == [i \in 1..Len(refs) |-> refs[i].line]

OfKind(refs, depType) == SelectSeq(refs, LAMBDA r : r.depType = depType)

\* C30: an existing edge is updated only by a reference of the same kind:
\* a reference of kind K2 applied to a (source,target) pair that so far has
\* only an edge of another kind K1 creates a new edge of kind K2 rather than
\* incrementing the K1 edge's count, so every edge's count covers references
\* of its own kind only.
C30_EdgeCountsOwnKind ==
    /\ \A s \in DOMAIN Nodes : \A t \in DOMAIN Deps(s) :
           Deps(s)[t].Count = Len(OfKind(AppliedTo(s, t), Deps(s)[t].Type))
    /\ \A i \in 1..Len(applied) :
           /\ applied[i].target \in DOMAIN Deps(applied[i].source)
           /\ Deps(applied[i].source)[applied[i].target].Type
                  = applied[i].depType

\* the occurrence counts of all dependent entries of the graph
SumDependentCounts ==
    SumOver(NodeIDs,
            [id \in NodeIDs |->
                SumOver(DOMAIN Dependents(id),
                        [x \in DOMAIN Dependents(id) |->
                            Dependents(id)[x].Count])])

\* C37: in every reachable state totalEdges equals the sum of the occurrence
\* counts of all dependency edges in the graph (the number of non-self
\* resolved references applied), and this sum equals the sum of the
\* occurrence counts of all dependent edges.
C37_TotalEdgesIsSumOfCounts ==
    /\ TotalEdges = SumCounts
    /\ SumCounts = Len(applied)
    /\ SumCounts = SumDependentCounts

\* two references were folded into one edge and another edge exists
C37_Witness ==
    /\ NumEdges >= 2
    /\ TotalEdges > NumEdges
    /\ \E s \in NodeIDs : \E t \in DOMAIN Deps(s) : Deps(s)[t].Count >= 2

\* C38: referential integrity: in every reachable state, every key of a
\* node's dependencies map and of its dependents map is the id of a node
\* present in graph.Nodes, and each entry's targetId equals its key.
C38_ReferentialIntegrity ==
    \A id \in NodeIDs :
        /\ \A t \in DOMAIN Deps(id) :
               /\ t \in NodeIDs
               /\ Nodes[t].ID = t
               /\ Deps(id)[t].TargetID = t
        /\ \A x \in DOMAIN Dependents(id) :
               /\ x \in NodeIDs
               /\ Nodes[x].ID = x
               /\ Dependents(id)[x].TargetID = x

\* a node that has both a dependency and a dependent
C38_Witness ==
    \E id \in NodeIDs :
        /\ DOMAIN Deps(id) # {}
        /\ DOMAIN Dependents(id) # {}

\* C39: ProcessFiles terminates for every number of input files (including
\* more than 10 and including files whose extraction fails): under fair
\* scheduling every worker eventually acquires a semaphore slot, releases it
\* on both the success and the failure path, and the final wait returns with
\* all slots free.
C39_ProcessFilesTerminates ==
    /\ <>(pfPc = "returned")
    /\ \A i \in 1..NumFiles :
           <>(i <= Len(files) => worker[i] \notin {"unspawned", "spawned"})
    /\ [](pfPc = "returned" =>
             /\ semaphore = 0
             /\ wg = 0
             /\ mu = 0
             /\ \A i \in 1..Len(files) : worker[i] = "done")

\* a call on more than ten files, some failing and some not, has returned
C39_Witness ==
    /\ pfPc = "returned"
    /\ Len(files) > maxParsers
    /\ semaphore = 0
    /\ \E i, j \in 1..Len(files) : files[i].ok /\ ~files[j].ok

\* C40: every update of the shared progress sink made by an extraction worker
\* happens while that worker holds the aggregation mutex, on the success path
\* and on the failure path alike, so no two workers ever update the progress
\* counter at the same time and after all workers finish the counter has
\* advanced by exactly the number of input files.
C40_ProgressUpdatesUnderMutex ==
    /\ pbUnguarded = 0
    /\ (progressBar /\ pfPc = "loop" /\ spawned = Len(files) /\ wg = 0) =>
           pbCurrent = Len(files)

\* C36: Spinner: every call to Stop returns (no deadlock, no panic), for any
\* number of Stop calls and whether or not Start was called first; after a
\* Stop that follows a Start has returned, the animation goroutine has
\* terminated and prints nothing more.
C36_StopReturnsAndSilences ==
    /\ \A c \in 1..MaxCallers : (stopPc[c] # "idle") ~> (stopPc[c] = "idle")
    /\ [](~sPanic)
    /\ [](\A g \in stopped : anim[g] = "exited")

\* the lines read so far that are namespace declarations
NamespaceLines ==
    {i \in 1..lineNum : ~IsSkipped(src[i]) /\ namespaceMatch(src[i]) # ""}

\* C31: the file namespace is set by the first namespace-declaration line of
\* the file and never changes afterwards: later namespace declarations are
\* ignored, so every declaration of the file carries the first namespace.
C31_FirstNamespaceWins ==
    NamespaceLines # {} =>
        LET first == CHOOSE i \in NamespaceLines : \A j \in NamespaceLines : i <= j
        IN  /\ parsed.Namespace = <<namespaceMatch(src[first])>>
            /\ \A k \in 1..Len(parsed.Elements) :
                   parsed.Elements[k].Line > first =>
                       parsed.Elements[k].Namespace = <<namespaceMatch(src[first])>>

\* The block structure of the file, read off its braces: the stack of open
\* scopes, each a class body, a function or method body or a plain block,
\* and the declaration whose opening brace has not come yet.
NoScope == [kind |-> "none", name |-> ""]
NoScopes == [stack |-> <<>>, pending |-> NoScope]

\* the scopes after the tokens of a line from position i on
RECURSIVE ScopesAfterTokens(_, _, _)
ScopesAfterTokens(sc, l, i) ==
    IF i > Len(l) THEN sc
    ELSE IF l[i] = "{"
    THEN ScopesAfterTokens(
             [stack |-> Append(sc.stack,
                               IF sc.pending = NoScope
                               THEN [kind |-> "block", name |-> ""]
                               ELSE sc.pending),
              pending |-> NoScope], l, i + 1)
    ELSE IF l[i] = "}"
    THEN ScopesAfterTokens(
             [stack |-> IF sc.stack = <<>> THEN <<>>
                        ELSE SubSeq(sc.stack, 1, Len(sc.stack) - 1),
              pending |-> NoScope], l, i + 1)
    ELSE ScopesAfterTokens(sc, l, i + 1)

\* a line that declares a class or carries a function signature opens the
\* scope of that declaration at its next brace
Declares(l) ==
    IF classMatch(l).ok THEN [kind |-> "class", name |-> classMatch(l).name]
    ELSE IF methodMatch(l).sig.ok
    THEN [kind |-> "function", name |-> methodMatch(l).sig.name]
    ELSE NoScope

\* the scopes in front of line n
RECURSIVE ScopesBefore(_)
ScopesBefore(n) ==
    IF n <= 1 THEN NoScopes
    ELSE LET sc == ScopesBefore(n - 1)
             l == src[n - 1]
         IN  IF IsSkipped(l) THEN sc
             ELSE ScopesAfterTokens(
                      IF Declares(l) = NoScope THEN sc
                      ELSE [sc EXCEPT !.pending = Declares(l)], l, 1)

\* the name of the innermost open scope of a kind, Empty when there is none
Innermost(stack, kind) ==
    LET at == {i \in 1..Len(stack) : stack[i].kind = kind}
    IN  IF at = {} THEN Empty
        ELSE <<stack[CHOOSE i \in at : \A j \in at : j <= i].name>>

\* the class whose declaration line lies before line n and whose body is not
\* closed before line n
ClassAround(n) ==
    LET sc == ScopesBefore(n)
    IN  IF sc.pending.kind = "class" THEN <<sc.pending.name>>
        ELSE Innermost(sc.stack, "class")

\* the declaration that encloses line n: the function or method whose body
\* contains the line, else the class whose body contains it, else none
EnclosingDeclaration(n) ==
    LET sc == ScopesBefore(n)
    IN  IF Innermost(sc.stack, "function") # Empty
        THEN Innermost(sc.stack, "function")
        ELSE Innermost(sc.stack, "class")

\* the lines read so far that carry a function signature
SignatureLines ==
    {n \in 1..lineNum : ~IsSkipped(src[n]) /\ methodMatch(src[n]).sig.ok}

\* the declarations of a kind the extractor has emitted for line n
EmittedAt(n, kind) ==
    {k \in 1..Len(parsed.Elements) :
        parsed.Elements[k].Line = n /\ parsed.Elements[k].Type = kind}

\* C32: for every function-signature line that lies between a
\* class-declaration line and the closing brace of that class's body, the
\* extractor emits a method Declaration whose owning class is that class and
\* emits no function Declaration, whichever line the class's opening brace is
\* on; a function Declaration is emitted only for signature lines outside
\* every class body.
C32_MethodsInsideClassBodies ==
    \A n \in SignatureLines :
        IF ClassAround(n) # Empty
        THEN /\ EmittedAt(n, "function") = {}
             /\ \E k \in EmittedAt(n, "method") :
                    /\ parsed.Elements[k].ClassName = ClassAround(n)
                    /\ parsed.Elements[k].Name = <<methodMatch(src[n]).sig.name>>
        ELSE EmittedAt(n, "method") = {}

\* C33: every Usage record's context is the name of the declaration that
\* encloses the usage line: the function or method whose body contains the
\* line, else the enclosing class when the line is inside a class body but
\* outside any method, else empty at file scope.  In particular a usage on a
\* line after a method's closing brace is not attributed to that method, for
\* any sequence of lines including unbalanced braces.
C33_UsageContextIsEnclosing ==
    \A k \in 1..Len(parsed.Usage) :
        Declares(src[parsed.Usage[k].Line]) = NoScope =>
            parsed.Usage[k].Context = EnclosingDeclaration(parsed.Usage[k].Line)

\* the function_call usages recorded so far
FunctionCalls ==
    {k \in 1..Len(parsed.Usage) : parsed.Usage[k].Type = "function_call"}

\* the name a line declares: that of its class or of its function signature
DeclaredOn(l) ==
    (IF classMatch(l).ok THEN {classMatch(l).name} ELSE {})
        \cup (IF methodMatch(l).sig.ok THEN {methodMatch(l).sig.name} ELSE {})

\* C34: no function_call usage ever carries a name that is in the
\* builtin/keyword table (compared case-insensitively), and none carries the
\* name of the function or class being declared on that same line.
C34_NoBuiltinOrDeclaredCalls ==
    \A k \in FunctionCalls :
        /\ ToLower(parsed.Usage[k].Name[1]) \notin builtins
        /\ parsed.Usage[k].Name[1] \notin DeclaredOn(src[parsed.Usage[k].Line])

\* the bare calls of a line: an identifier followed by an opening parenthesis
\* and not preceded by -> or ::, that is no builtin or keyword and not the
\* name declared on the line
BareCalls(l) ==
    {i \in 1..Len(l) :
        /\ l[i] \in Words
        /\ Tok(l, SkipBlank(l, i + 1)) = "("
        /\ Tok(l, i - 1) \notin {"->", "::"}
        /\ ToLower(l[i]) \notin builtins
        /\ l[i] \notin DeclaredOn(l)}

\* C35: every bare call 'identifier(' whose identifier is not itself preceded
\* by '->' or '::', is not a builtin/keyword and is not the signature
\* declared on the line yields a function_call usage, also when a '->' or
\* '::' occurs elsewhere on the same line (for example inside the call's
\* arguments, as in format_phone($request->phone)).
C35_BareCallsRecorded ==
    \A n \in 1..lineNum :
        ~IsSkipped(src[n]) =>
            \A i \in BareCalls(src[n]) :
                \E k \in FunctionCalls :
                    /\ parsed.Usage[k].Name = <<src[n][i]>>
                    /\ parsed.Usage[k].Line = n

====
